---- MODULE Spec2Model ----
(***************************************************************************)
(* A model of the DEX price aggregator's freshness engine.                 *)
(*                                                                         *)
(* The tiered pool scheduler (PoolScheduler) is translated from its        *)
(* source.  The Pool Controller and the Multicall Engine it calls are      *)
(* modelled from their specified contracts (sections 4.3 and 4.5).         *)
(*                                                                         *)
(* The Token Discovery Manager is translated from its source.  Storage     *)
(* and the Chain Adapter's pool lookups are modelled from their specified  *)
(* contracts (sections 4.1 and 4.2).  Spec follows the scheduler and       *)
(* DiscoverySpec the discovery invocations; each leaves the other's        *)
(* variables as constructed.                                               *)
(*                                                                         *)
(* The Snapshot Service and its HTTP route are translated from their       *)
(* source.  The static token lists and the pricing functions are modelled  *)
(* from their specified contracts (sections 4.8 and 4.9).  SnapshotSpec    *)
(* follows the service over an adapter that reads the chain, RouteSpec     *)
(* the route over the mock adapters registerRoutes constructs,             *)
(* ConcurrentSpec two callers of generateSnapshot at once.                 *)
(*                                                                         *)
(* The batched pool read of the EthersAdapter (getBatchPoolData) is        *)
(* translated from its source; BatchSpec follows its calls.                *)
(*                                                                         *)
(* Units.  Instants and durations are milliseconds, as returned by         *)
(* Date.now().  A sqrtPriceX96 value s of the model stands for the         *)
(* on-chain value s * 2^96 / Q96Unit, so Number(sqrtPriceX96) / 2 ** 96    *)
(* is s / Q96Unit; a price q of the model stands for q / 1000.  Q96Unit is  *)
(* 1000^2, so the square root of the code is the integer square root of    *)
(* the model, exact on the perfect squares the model draws.                *)
(***************************************************************************)
EXTENDS Integers, Sequences, FiniteSets, TLC

VARIABLES
    now,                      \* Date.now()
    isRunning,                \* PoolScheduler.isRunning
    executionLoopIntervalId,  \* PoolScheduler.executionLoopIntervalId
    timers,                   \* the interval timers installed in the event loop
    alive,                    \* PoolController's alive set, in insertion order
    ticks,                    \* the executionLoop invocations in flight
    sharedStateCache,         \* SharedStateCache: the samples held, one per key
    unhandled,                \* a rejection escaped the timer callback
    lastLog,                  \* what start()/stop() logged, if they were the last step
    discoveryAttempts,        \* TokenDiscoveryManager.discoveryAttempts
    storage,                  \* StorageService: the persisted registry of each chain
    discoveries,              \* the discoverPoolsForTokens invocations, in call order
    adapters,                 \* SnapshotService.adapters
    snapshotCache,            \* SnapshotService.cache
    dynamicTokens,            \* SnapshotService.dynamicTokens
    refresh,                  \* the fetch refreshDynamicTokens awaits, or "done"
    snapshotCalls,            \* the generateSnapshot calls in flight, one per client
    lastSettled,              \* the generateSnapshot call that settled last
    batchRead                 \* the getBatchPoolData call of the adapter

vars == <<now, isRunning, executionLoopIntervalId, timers, alive, ticks,
          sharedStateCache, unhandled, lastLog,
          discoveryAttempts, storage, discoveries,
          adapters, snapshotCache, dynamicTokens, refresh, snapshotCalls,
          lastSettled, batchRead>>

schedulerVars == <<isRunning, executionLoopIntervalId, timers, alive, ticks,
                   sharedStateCache, unhandled, lastLog>>

discoveryVars == <<discoveryAttempts, storage, discoveries>>

snapshotVars == <<adapters, snapshotCache, dynamicTokens, refresh, snapshotCalls,
                  lastSettled>>

adapterVars == <<batchRead>>

----------------------------------------------------------------------------
(* Bounds of the model *)

MaxClockSteps == 4
MaxBlock == 1
MaxDiscoveryClockSteps == 2
MaxSnapshotClockSteps == 2
MaxBatch == 3

(* Program constants *)

TimerPeriodMs == 10000
RetryDelayMs == 5000
TierHighMs == 5000
TierNormalMs == 10000
TierLowMs == 30000
DefaultChainId == 1
NullId == 0

Q96Unit == 1000 * 1000
ClockStep == RetryDelayMs
MaxClock == MaxClockSteps * ClockStep

\* one interval timer fires at most once a period
MaxInFlight == MaxClock \div TimerPeriodMs

\* result.data of a result that carries none
NoData == [sqrtPriceX96 |-> -1, liquidity |-> -1]

(* The pools the controller may be tracking when the scheduler is         *)
(* constructed, with the chainId each carries (0: not set).                *)
InitialPoolLists == {<<"0xa", "0xb">>, <<"0xa", "0xc">>}
ChainIdOf(address) ==
    CASE address = "0xa" -> 1
      [] address = "0xb" -> 0
      [] OTHER -> 137

Blocks == 0..MaxBlock
SqrtPrices == {0, Q96Unit, 1010025}
Liquidities == {7}

----------------------------------------------------------------------------
(* Sequences *)

RECURSIVE SelectIndex(_, _, _)
SelectIndex(s, address, i) ==
    IF i > Len(s) THEN 0
    ELSE IF s[i].address = address THEN i
    ELSE SelectIndex(s, address, i + 1)

\* Array.prototype.find on the alive set: the index of the first pool with
\* that address, 0 for undefined.
FindPool(aliveSet, address) == SelectIndex(aliveSet, address, 1)

RemoveAt(s, i) == [k \in 1..(Len(s) - 1) |-> IF k < i THEN s[k] ELSE s[k + 1]]

Abs(x) == IF x < 0 THEN -x ELSE x

RECURSIVE SqrtSearch(_, _, _)
SqrtSearch(n, lo, hi) ==
    IF lo >= hi THEN lo
    ELSE LET mid == (lo + hi + 1) \div 2
         IN  IF mid * mid <= n THEN SqrtSearch(n, mid, hi)
             ELSE SqrtSearch(n, lo, mid - 1)

Isqrt(n) == SqrtSearch(n, 0, IF n < 2048 THEN n ELSE 2048)

----------------------------------------------------------------------------
(* Pool Controller (section 4.3) *)

TierInterval(tier) ==
    CASE tier = "high" -> TierHighMs
      [] tier = "normal" -> TierNormalMs
      [] OTHER -> TierLowMs

NewAlivePool(address, t) ==
    [address |-> address, chainId |-> ChainIdOf(address), tier |-> "normal",
     nextRefresh |-> t + TierNormalMs, lastBlockSeen |-> 0, lastPrice |-> 0]

\* track: idempotent insertion
track(aliveSet, address, t) ==
    IF FindPool(aliveSet, address) # 0 THEN aliveSet
    ELSE Append(aliveSet, NewAlivePool(address, t))

\* getPoolsForRefresh: the alive pools with nextRefresh <= now
getPoolsForRefresh(aliveSet, t) ==
    SelectSeq(aliveSet, LAMBDA p : p.nextRefresh <= t)

\* delta >= num / den, for delta = |newPrice - lastPrice| / max(lastPrice, eps)
\* with eps positive and below every representable price
DeltaAtLeast(newPrice, lastPrice, num, den) ==
    IF lastPrice > 0 THEN Abs(newPrice - lastPrice) * den >= num * lastPrice
    ELSE newPrice # lastPrice

DemoteOneStep(tier) == IF tier = "high" THEN "normal" ELSE "low"

NextTier(tier, newPrice, lastPrice) ==
    IF DeltaAtLeast(newPrice, lastPrice, 5, 1000) THEN "high"
    ELSE IF DeltaAtLeast(newPrice, lastPrice, 1, 1000) THEN "normal"
    ELSE DemoteOneStep(tier)

\* updatePoolTier(poolAddress, newPrice)
updatePoolTier(aliveSet, address, newPrice, t) ==
    LET i == FindPool(aliveSet, address)
    IN  IF i = 0 THEN aliveSet
        ELSE LET tier == NextTier(aliveSet[i].tier, newPrice, aliveSet[i].lastPrice)
             IN  [aliveSet EXCEPT ![i].tier = tier,
                                  ![i].nextRefresh = t + TierInterval(tier)]

----------------------------------------------------------------------------
(* Multicall Engine (section 4.5): the results executeBatches may return   *)

FailedResult(address) ==
    [poolAddress |-> address, success |-> FALSE, data |-> NoData, blockNumber |-> 0]

ResultsFor(address) ==
    {FailedResult(address)}
    \cup {[poolAddress |-> address, success |-> TRUE, data |-> NoData,
           blockNumber |-> 0]}
    \cup {[poolAddress |-> address, success |-> TRUE,
           data |-> [sqrtPriceX96 |-> s, liquidity |-> l], blockNumber |-> b] :
          s \in SqrtPrices, l \in Liquidities, b \in Blocks}

----------------------------------------------------------------------------
(* Pool Scheduler *)

\* start(): the scheduler's fields, the installed timers and the log line
NewTimerId(installed) ==
    CHOOSE id \in 1..(Cardinality(installed) + 1) :
        \A tm \in installed : tm.id # id

startUnguarded(s, t) ==
    LET id == NewTimerId(s.timers)
    IN  [isRunning |-> TRUE,
         executionLoopIntervalId |-> id,
         timers |-> s.timers \cup {[id |-> id, next |-> t + TimerPeriodMs]},
         log |-> "starting"]

start(s, t) ==
    IF s.isRunning THEN [s EXCEPT !.log = "already running"]
    ELSE LET id == NewTimerId(s.timers)
         IN  [isRunning |-> TRUE,
              executionLoopIntervalId |-> id,
              timers |-> s.timers \cup {[id |-> id, next |-> t + TimerPeriodMs]},
              log |-> "starting"]

\* stop() that clears the flag and leaves the interval installed
stopFlagOnly(s) ==
    IF ~s.isRunning THEN [s EXCEPT !.log = "none"]
    ELSE [s EXCEPT !.isRunning = FALSE, !.log = "stopped"]

\* stop()
stop(s) ==
    IF ~s.isRunning THEN [s EXCEPT !.log = "none"]
    ELSE [isRunning |-> FALSE,
          executionLoopIntervalId |-> NullId,
          timers |-> IF s.executionLoopIntervalId # NullId
                     THEN {tm \in s.timers : tm.id # s.executionLoopIntervalId}
                     ELSE s.timers,
          log |-> "stopped"]

\* isActive()
isActive(s) == s.isRunning

\* the timer callback's .catch: the rejection is logged and goes no further
onLoopRejectedUncaught(escaped) == TRUE

onLoopRejected(escaped) == escaped

\* pool.chainId || 1
EffectiveChainId(pool) ==
    IF pool.chainId = 0 THEN DefaultChainId ELSE pool.chainId

RECURSIVE GroupIndex(_, _, _)
GroupIndex(groups, chainId, i) ==
    IF i > Len(groups) THEN 0
    ELSE IF groups[i].chainId = chainId THEN i
    ELSE GroupIndex(groups, chainId, i + 1)

\* executionLoop: poolsByChain, a Map in insertion order
RECURSIVE GroupByChain(_, _)
GroupByChain(poolsDue, groups) ==
    IF poolsDue = <<>> THEN groups
    ELSE LET pool == Head(poolsDue)
             chainId == EffectiveChainId(pool)
             g == GroupIndex(groups, chainId, 1)
         IN  GroupByChain(Tail(poolsDue),
                 IF g = 0
                 THEN Append(groups, [chainId |-> chainId, pools |-> <<pool.address>>])
                 ELSE [groups EXCEPT ![g].pools = Append(@, pool.address)])

\* executeForChain: Math.sqrt(Number(sqrtPriceX96) / 2 ** 96)
PriceOf(sqrtPriceX96) == Isqrt(sqrtPriceX96)

IsBlockAwareSkipOlder(result, aliveSet, i) ==
    /\ i # 0
    /\ result.blockNumber < aliveSet[i].lastBlockSeen
    /\ result.blockNumber # 0

\* executeForChain: result.blockNumber === pool?.lastBlockSeen
\*                  && result.blockNumber !== 0   (i = 0: pool is undefined)
IsBlockAwareSkip(result, aliveSet, i) ==
    /\ i # 0
    /\ result.blockNumber = aliveSet[i].lastBlockSeen
    /\ result.blockNumber # 0

\* a call of poolController.updatePoolTier, with what the controller saw
CallUpdatePoolTier(st, address, price, t) ==
    LET i == FindPool(st.alive, address)
    IN  [st EXCEPT !.alive = updatePoolTier(st.alive, address, price, t),
                   !.calls = Append(@, [address |-> address, price |-> price,
                                        lastPrice |-> st.alive[i].lastPrice])]

ApplyFreshResultStoreFirst(st, result, i, t) ==
    LET price == PriceOf(result.data.sqrtPriceX96)
        stored == [st EXCEPT !.alive[i].lastBlockSeen = result.blockNumber,
                             !.alive[i].lastPrice = price]
    IN  CallUpdatePoolTier(stored, result.poolAddress, price, t)

\* executeForChain: the body of `if (pool)`
ApplyFreshResult(st, result, i, t) ==
    LET price == PriceOf(result.data.sqrtPriceX96)
        called == CallUpdatePoolTier(st, result.poolAddress, price, t)
    IN  [called EXCEPT !.alive[i].lastBlockSeen = result.blockNumber,
                       !.alive[i].lastPrice = price]

\* executeForChain: the body of the loop over multicallResults
ProcessResult(st, result, t) ==
    IF result.success /\ result.data # NoData
    THEN LET i == FindPool(st.alive, result.poolAddress)
         IN  IF IsBlockAwareSkip(result, st.alive, i) THEN st
             ELSE IF i # 0 THEN ApplyFreshResult(st, result, i, t)
             ELSE st
    ELSE st

RetryFirst(aliveSet, poolsDue, t) ==
    LET i == FindPool(aliveSet, Head(poolsDue))
    IN  [aliveSet EXCEPT ![i].nextRefresh = t + RetryDelayMs]

\* executeForChain: the catch block, pool.nextRefresh = Date.now() + 5000
RECURSIVE RetryAll(_, _, _)
RetryAll(aliveSet, poolsDue, t) ==
    IF poolsDue = <<>> THEN aliveSet
    ELSE LET i == FindPool(aliveSet, Head(poolsDue))
         IN  RetryAll(IF i = 0 THEN aliveSet
                      ELSE [aliveSet EXCEPT ![i].nextRefresh = t + RetryDelayMs],
                      Tail(poolsDue), t)

----------------------------------------------------------------------------
(* Addresses *)

(* An address is its hexadecimal digits and its letter case: checksum is   *)
(* TRUE for the mixed-case (EIP-55) form, FALSE for the all-lowercase one. *)
Addr(hex, checksum) == [hex |-> hex, checksum |-> checksum]

\* String.prototype.toLowerCase
toLowerCase(address) == [address EXCEPT !.checksum = FALSE]

EmptyMap == [k \in {} |-> k]

HasKey(map, key) == key \in DOMAIN map

\* map[key] = value
Put(map, key, value) == [k \in DOMAIN map \cup {key} |->
                            IF k = key THEN value ELSE map[k]]

----------------------------------------------------------------------------
(* Storage (section 4.1) and Chain Adapter (section 4.2) *)

EmptyRegistry == [pools |-> EmptyMap, pricingRoutes |-> EmptyMap]

\* the hexadecimal digits of the tokens, in ascending order
TokenOrder == <<"0x1f98", "0x6b17", "0xa0b8", "0xc02a", "0xdac1">>

HexRank(hex) == CHOOSE i \in 1..Len(TokenOrder) : TokenOrder[i] = hex

\* a pool's (token0, token1): its pair, token0 < token1, as the chain returns
\* addresses
PoolTokens(tokenA, tokenB) ==
    IF HexRank(tokenA.hex) < HexRank(tokenB.hex)
    THEN [token0 |-> Addr(tokenA.hex, TRUE), token1 |-> Addr(tokenB.hex, TRUE)]
    ELSE [token0 |-> Addr(tokenB.hex, TRUE), token1 |-> Addr(tokenA.hex, TRUE)]

\* computePoolAddress: the address derived from the unordered pair and the
\* fee tier; there is no pool of a token with itself
HasPoolAddress(tokenA, tokenB) == tokenA.hex # tokenB.hex

computePoolAddress(tokenA, tokenB, fee) ==
    LET pair == PoolTokens(tokenA, tokenB)
    IN  Addr("pool:" \o pair.token0.hex \o ":" \o pair.token1.hex
                     \o ":" \o ToString(fee), TRUE)

\* readPoolState: the tokens of the pool
readPoolState(tokenA, tokenB) == PoolTokens(tokenA, tokenB)

----------------------------------------------------------------------------
(* Token Discovery Manager *)

DISCOVERY_RETRY_WINDOW == 5 * 60 * 1000

\* this.FEE_TIERS; the model probes the first of them
AllFeeTiers == <<100, 500, 3000, 10000>>
FEE_TIERS == <<Head(AllFeeTiers)>>

AllBaseTokens(chainId) ==
    CASE chainId = 1 ->
            <<Addr("0xa0b8", FALSE), Addr("0xdac1", FALSE),
              Addr("0x6b17", FALSE), Addr("0xc02a", FALSE)>>
      [] chainId = 137 ->
            <<Addr("0x2791", FALSE), Addr("0xc213", FALSE),
              Addr("0x8f3c", FALSE), Addr("0x7ceb", FALSE), Addr("0x0d50", FALSE)>>
      [] OTHER -> <<>>

\* this.BASE_TOKENS[chainId] || []; the model probes the first two of them
BASE_TOKENS(chainId) ==
    LET all == AllBaseTokens(chainId)
    IN  IF all = <<>> THEN <<>> ELSE <<all[1], all[2]>>

\* the (baseToken, fee) pairs in the order the nested loops visit them
Candidates(chainId) ==
    LET bases == BASE_TOKENS(chainId)
        n == Len(FEE_TIERS)
    IN  [c \in 1..(Len(bases) * n) |->
            [baseToken |-> bases[((c - 1) \div n) + 1],
             fee |-> FEE_TIERS[((c - 1) % n) + 1]]]

attemptKey(token, chainId) == <<toLowerCase(token.address), chainId>>

InRetryWindowIfSucceeded(attempts, key, t) ==
    /\ HasKey(attempts, key)
    /\ attempts[key].succeeded
    /\ t - attempts[key].attemptedAt < DISCOVERY_RETRY_WINDOW

\* lastAttempt && (Date.now() - lastAttempt.attemptedAt) < DISCOVERY_RETRY_WINDOW
InRetryWindow(attempts, key, t) ==
    /\ HasKey(attempts, key)
    /\ t - attempts[key].attemptedAt < DISCOVERY_RETRY_WINDOW

\* registry.pricingRoutes[key].push(route), after `if (!...[key]) ...[key] = []`
PushRoute(pricingRoutes, key, route) ==
    Put(pricingRoutes, key,
        Append(IF HasKey(pricingRoutes, key) THEN pricingRoutes[key] ELSE <<>>,
               route))

NewPoolMetadata(poolAddress, poolState, fee) ==
    [address |-> poolAddress,
     dexType |-> IF fee # 0 THEN "v3" ELSE "v2",
     token0 |-> poolState.token0,
     token1 |-> poolState.token1,
     feeTier |-> fee,
     weight |-> IF fee # 0 THEN 2 ELSE 1]

addPoolToRegistryLowerKey(registry, poolAddress, poolState, fee) ==
    [pools |-> Put(registry.pools, toLowerCase(poolAddress),
                   NewPoolMetadata(poolAddress, poolState, fee)),
     pricingRoutes |->
        PushRoute(PushRoute(registry.pricingRoutes,
                            toLowerCase(poolState.token0),
                            [pool |-> poolAddress, base |-> poolState.token1]),
                  toLowerCase(poolState.token1),
                  [pool |-> poolAddress, base |-> poolState.token0])]

addPoolToRegistryOneWay(registry, poolAddress, poolState, fee) ==
    [pools |-> Put(registry.pools, poolAddress,
                   NewPoolMetadata(poolAddress, poolState, fee)),
     pricingRoutes |->
        PushRoute(registry.pricingRoutes,
                  toLowerCase(poolState.token0),
                  [pool |-> poolAddress, base |-> poolState.token1])]

\* addPoolToRegistry(registry, poolAddress, poolState, fee)
addPoolToRegistry(registry, poolAddress, poolState, fee) ==
    [pools |-> Put(registry.pools, poolAddress,
                   NewPoolMetadata(poolAddress, poolState, fee)),
     pricingRoutes |->
        PushRoute(PushRoute(registry.pricingRoutes,
                            toLowerCase(poolState.token0),
                            [pool |-> poolAddress, base |-> poolState.token1]),
                  toLowerCase(poolState.token1),
                  [pool |-> poolAddress, base |-> poolState.token0])]

----------------------------------------------------------------------------
(* Snapshot Service and its HTTP route *)

CACHE_TTL == 10000
DefaultOffset == 0
DefaultLimit == 25
FallbackPrice == 1
FallbackLiquidity == 500000
VolumePercent == 15
MarketCapFactor == 10000000

(* A chain name is its letters and whether it is written with capitals:   *)
(* Text("ethereum", TRUE) stands for "Ethereum".                           *)
Text(letters, capitals) == [letters |-> letters, capitals |-> capitals]

\* String.prototype.toLowerCase, on a chain name
lowerCase(text) == [text EXCEPT !.capitals = FALSE]

Ethereum == Text("ethereum", FALSE)
Polygon == Text("polygon", FALSE)

(* The service is constructed with one adapter per chain.  An adapter's  *)
(* getTopPools either awaits nothing (MockAdapter), and then has resolved  *)
(* with no pools when the caller's await is reached, or awaits I/O         *)
(* (EthersAdapter), and then settles in a later callback.                  *)
MockAdapter(chainName, stableTokenAddress) ==
    [chainName |-> lowerCase(chainName), immediate |-> TRUE,
     stableTokenAddress |-> stableTokenAddress]

EthersAdapter(chainName, stableTokenAddress) ==
    [chainName |-> chainName, immediate |-> FALSE,
     stableTokenAddress |-> stableTokenAddress]

\* the adapters registerRoutes constructs the service with
RouteAdapters ==
    <<MockAdapter(Ethereum, Addr("0xa0b8", TRUE)),
      MockAdapter(Polygon, Addr("0xp1", TRUE))>>

\* one adapter that reads the chain
RpcAdapters == <<EthersAdapter(Ethereum, Addr("0xa0b8", TRUE))>>

RECURSIVE AdapterMap(_, _)
\* adapters.forEach(adapter => this.adapters.set(name.toLowerCase(), adapter))
AdapterMap(list, i) ==
    IF i = 0 THEN EmptyMap
    ELSE Put(AdapterMap(list, i - 1), lowerCase(list[i].chainName), list[i])

\* the static token lists (shared/tokens)
StaticUsdc == [address |-> Addr("0xa0b8", TRUE), symbol |-> "USDC"]

PolygonListLength == 101

PolygonToken(i, checksum) ==
    [address |-> Addr("0xp" \o ToString(i), checksum), symbol |-> "P" \o ToString(i)]

SUPPORTED_TOKENS(chainKey) ==
    IF chainKey = Ethereum THEN <<StaticUsdc>>
    ELSE IF chainKey = Polygon
         THEN [i \in 1..PolygonListLength |-> PolygonToken(i, TRUE)]
         ELSE <<>>

\* the token lists the two fetches of refreshDynamicTokens return: the
\* first holds a token of the static list and one token twice, in its two
\* letter cases
FetchedTokens(chainKey) ==
    IF chainKey = Ethereum
    THEN <<[address |-> Addr("0xa0b8", FALSE), symbol |-> "USDC"],
           [address |-> Addr("0x1f98", TRUE), symbol |-> "UNI"],
           [address |-> Addr("0x1f98", FALSE), symbol |-> "UNI"]>>
    ELSE <<PolygonToken(1, FALSE)>>

\* the pool lists getTopPools resolves with: none, or the UNI/USDC pool
TopPoolLists ==
    {<<>>,
     <<[token0 |-> [address |-> Addr("0x1f98", TRUE)],
        token1 |-> [address |-> Addr("0xa0b8", TRUE)],
        reserve0 |-> 1000, reserve1 |-> 2000]>>}

\* a query parameter of the URL: absent, or its characters
NoQuery == [present |-> FALSE, text |-> <<>>]
Query(text) == [present |-> TRUE, text |-> text]

Digits == <<"0", "1", "2", "3", "4", "5", "6", "7", "8", "9">>
IsDigit(ch) == \E d \in 1..Len(Digits) : Digits[d] = ch
DigitValue(ch) == (CHOOSE d \in 1..Len(Digits) : Digits[d] = ch) - 1

NaN == [nan |-> TRUE, value |-> 0]

RECURSIVE ParseDigits(_, _, _)
\* the value of the longest run of digits of text from position i on
ParseDigits(text, i, value) ==
    IF i > Len(text) \/ ~IsDigit(text[i]) THEN value
    ELSE ParseDigits(text, i + 1, 10 * value + DigitValue(text[i]))

\* parseInt(string): an optional sign and the leading digits; NaN when
\* there are none, as for undefined
parseInt(query) ==
    LET text == query.text
        signed == Len(text) > 0 /\ text[1] \in {"-", "+"}
        first == IF signed THEN 2 ELSE 1
        magnitude == ParseDigits(text, first, 0)
    IN  IF ~query.present \/ first > Len(text) \/ ~IsDigit(text[first])
        THEN NaN
        ELSE [nan |-> FALSE,
              value |-> IF signed /\ text[1] = "-" THEN -magnitude ELSE magnitude]

\* parseInt(...) || default: NaN and 0 are falsy
OrDefault(parsed, default) ==
    IF parsed.nan \/ parsed.value = 0 THEN default ELSE parsed.value

\* Array.prototype.slice(start, end)
slice(array, first, last) ==
    LET len == Len(array)
        from == IF first < 0 THEN (IF len + first < 0 THEN 0 ELSE len + first)
                ELSE (IF first > len THEN len ELSE first)
        to == IF last < 0 THEN (IF len + last < 0 THEN 0 ELSE len + last)
              ELSE (IF last > len THEN len ELSE last)
    IN  [i \in 1..(to - from) |-> array[from + i]]

\* [...staticMeta, ...dynamicMeta.filter(t => !seen.has(lowercase address))]
\* with seen the lowercase addresses of staticMeta
MergeTokens(staticMeta, dynamicMeta) ==
    LET seen == {toLowerCase(staticMeta[i].address) : i \in 1..Len(staticMeta)}
        unseen(t) == toLowerCase(t.address) \notin seen
    IN  staticMeta \o SelectSeq(dynamicMeta, unseen)

\* `${chainKey}:${meta.address.toLowerCase()}`
cacheKey(chainKey, meta) == <<chainKey, toLowerCase(meta.address)>>

IsFreshInclusive(cached, key, t) ==
    /\ HasKey(cached, key)
    /\ t - cached[key].timestamp <= CACHE_TTL

\* cached && (now - cached.timestamp < 10000)
IsFresh(cached, key, t) ==
    /\ HasKey(cached, key)
    /\ t - cached[key].timestamp < CACHE_TTL

IsPoolOf(pool, meta) ==
    \/ toLowerCase(pool.token0.address) = toLowerCase(meta.address)
    \/ toLowerCase(pool.token1.address) = toLowerCase(meta.address)

\* pools.find(p => token0 or token1 is the token, in lowercase): its index,
\* 0 for undefined
FindTokenPool(pools, meta) ==
    IF \E i \in 1..Len(pools) : IsPoolOf(pools[i], meta)
    THEN CHOOSE i \in 1..Len(pools) :
            /\ IsPoolOf(pools[i], meta)
            /\ \A j \in 1..(i - 1) : ~IsPoolOf(pools[j], meta)
    ELSE 0

\* Pricing (section 4.9), for a pool with reserves
reserveOf(pool, token) ==
    IF toLowerCase(pool.token0.address) = toLowerCase(token)
    THEN pool.reserve0 ELSE pool.reserve1

computeSpotPrice(pool, targetToken, quoteToken) ==
    reserveOf(pool, quoteToken) \div reserveOf(pool, targetToken)

computeLiquidityUSD(pool, price0USD, price1USD) ==
    pool.reserve0 * price0USD + pool.reserve1 * price1USD

NewEntry(meta, price, liquidity) ==
    [token |-> [symbol |-> meta.symbol, address |-> meta.address],
     priceUSD |-> price,
     liquidityUSD |-> liquidity,
     volumeUSD |-> (liquidity * VolumePercent) \div 100,
     marketCapUSD |-> price * MarketCapFactor]

\* the entry of a token that keeps the initial `price = 0; liquidity = 0`
\* when no pool is found
FreshEntryNoFallback(meta, pools, stableAddress) ==
    LET found == FindTokenPool(pools, meta)
        pool == pools[found]
        isToken0Stable == toLowerCase(pool.token0.address) = toLowerCase(stableAddress)
        targetToken == IF isToken0Stable THEN pool.token1 ELSE pool.token0
        price == computeSpotPrice(pool, targetToken.address, stableAddress)
        liquidity == computeLiquidityUSD(pool,
                                         IF isToken0Stable THEN 1 ELSE price,
                                         IF isToken0Stable THEN price ELSE 1)
    IN  IF found # 0
        THEN NewEntry(meta, price, liquidity)
        ELSE NewEntry(meta, 0, 0)

\* the entry computed for a token from the pools getTopPools resolved with
FreshEntry(meta, pools, stableAddress) ==
    LET found == FindTokenPool(pools, meta)
        pool == pools[found]
        isToken0Stable == toLowerCase(pool.token0.address) = toLowerCase(stableAddress)
        targetToken == IF isToken0Stable THEN pool.token1 ELSE pool.token0
        price == computeSpotPrice(pool, targetToken.address, stableAddress)
        liquidity == computeLiquidityUSD(pool,
                                         IF isToken0Stable THEN 1 ELSE price,
                                         IF isToken0Stable THEN price ELSE 1)
    IN  IF found # 0
        THEN NewEntry(meta, price, liquidity)
        ELSE NewEntry(meta, FallbackPrice, FallbackLiquidity)

\* an entry of the array Promise.all has not filled yet
NoEntry == NewEntry([symbol |-> "", address |-> Addr("", FALSE)], -1, -1)

\* the message of an Error, in parts
NoAdapterError(chain) == <<"No adapter", " found for chain: ", chain.letters>>
ReadError == <<"could not read pools">>
NoError == <<>>

\* String.prototype.includes
includes(message, part) == \E i \in 1..Len(message) : message[i] = part

NoResponse == [status |-> 0, message |-> ""]

(* A generateSnapshot call, with the request that made it:                 *)
(*   pc        "idle", "pending" (Promise.all has not settled),            *)
(*             "resolved" or "rejected"                                    *)
(*   http      it was made by the route handler, for query                 *)
(*   chain, offset, limit                                                  *)
(*             its arguments                                               *)
(*   chainKey, allMetadata, windowedMetadata, now, entries                 *)
(*             its locals; entries is the array Promise.all fills          *)
(*   pending   the tokens of the window whose getTopPools has not settled  *)
(*   error     what it rejected with                                       *)
(*   response  what the route handler sent                                 *)
IdleCall ==
    [pc |-> "idle", http |-> FALSE,
     query |-> [offset |-> NoQuery, limit |-> NoQuery],
     chain |-> Text("", FALSE), offset |-> 0, limit |-> 0,
     chainKey |-> Text("", FALSE), allMetadata |-> <<>>,
     windowedMetadata |-> <<>>, now |-> 0, entries |-> <<>>, pending |-> {},
     error |-> NoError, response |-> NoResponse]

\* the route handler's res.json(snapshot) and its catch block
respond(call) ==
    IF ~call.http \/ call.pc \notin {"resolved", "rejected"} THEN call
    ELSE IF call.pc = "resolved"
         THEN [call EXCEPT !.response = [status |-> 200, message |-> ""]]
         ELSE IF includes(call.error, "No adapter")
              THEN [call EXCEPT !.response =
                       [status |-> 404, message |-> "Chain not supported"]]
              ELSE [call EXCEPT !.response =
                       [status |-> 500, message |-> "Internal server error"]]

\* the body of a 200 response: the ChainSnapshot generateSnapshot returned
snapshotOf(call) ==
    [timestamp |-> call.now,
     chain |-> adapters[call.chainKey].chainName,
     entries |-> call.entries]

chainKeyAsGiven(chain) == chain

\* const chainKey = chain.toLowerCase()
chainKeyOf(chain) == lowerCase(chain)

(* generateSnapshot up to its first await.  It throws for a chain with no  *)
(* adapter.  Otherwise the callbacks of windowedMetadata.map run one after *)
(* the other, each to its return of the cached entry or to its             *)
(* `await adapter.getTopPools(100)`.  Promise.all over no pending promise  *)
(* resolves at once.  state is the call and this.cache.                    *)
generateSnapshot(state, dynamic, t) ==
    LET call == state.call
        chainKey == chainKeyOf(call.chain)
        staticMeta == SUPPORTED_TOKENS(chainKey)
        dynamicMeta == IF HasKey(dynamic, chainKey) THEN dynamic[chainKey] ELSE <<>>
        allMetadata == MergeTokens(staticMeta, dynamicMeta)
        windowedMetadata == slice(allMetadata, call.offset, call.offset + call.limit)
        window == 1..Len(windowedMetadata)
        fresh(i) == IsFresh(state.cache, cacheKey(chainKey, windowedMetadata[i]), t)
        pending == {i \in window : ~fresh(i)}
    IN  IF ~HasKey(adapters, chainKey)
        THEN [state EXCEPT !.call = respond([call EXCEPT
                 !.pc = "rejected", !.chainKey = chainKey,
                 !.error = NoAdapterError(call.chain)])]
        ELSE [state EXCEPT !.call = respond([call EXCEPT
                 !.pc = IF pending = {} THEN "resolved" ELSE "pending",
                 !.chainKey = chainKey,
                 !.allMetadata = allMetadata,
                 !.windowedMetadata = windowedMetadata,
                 !.now = t,
                 !.entries = [i \in window |->
                     IF fresh(i)
                     THEN state.cache[cacheKey(chainKey, windowedMetadata[i])].entry
                     ELSE NoEntry],
                 !.pending = pending])]

\* the callback of token i after `await adapter.getTopPools(100)` resolved
\* with pools: it stores the entry in the cache and returns it; Promise.all
\* resolves with the last of them unless it has rejected
onTopPools(state, i, pools) ==
    LET call == state.call
        meta == call.windowedMetadata[i]
        entry == FreshEntry(meta, pools,
                            adapters[call.chainKey].stableTokenAddress)
        pending == call.pending \ {i}
    IN  [call |-> respond([call EXCEPT
                     !.entries[i] = entry,
                     !.pending = pending,
                     !.pc = IF pending = {} /\ call.pc = "pending"
                            THEN "resolved" ELSE call.pc]),
         cache |-> Put(state.cache, cacheKey(call.chainKey, meta),
                       [timestamp |-> call.now, entry |-> entry])]

\* `await adapter.getTopPools(100)` rejected for token i: the callback
\* rejects, and Promise.all, generateSnapshot and the handler's await with
\* it, unless Promise.all has rejected before
onTopPoolsRejected(state, i, error) ==
    LET call == state.call
    IN  [state EXCEPT !.call =
            IF call.pc = "pending"
            THEN respond([call EXCEPT !.pending = @ \ {i}, !.pc = "rejected",
                                      !.error = error])
            ELSE [call EXCEPT !.pending = @ \ {i}]]

Lowest(indexes) == CHOOSE i \in indexes : \A j \in indexes : i <= j

RECURSIVE resolveInOrder(_)
\* an adapter whose getTopPools awaits nothing: the callbacks resume in
\* the order of their calls, each with no pools, before any other callback
resolveInOrder(state) ==
    IF state.call.pending = {} THEN state
    ELSE resolveInOrder(onTopPools(state, Lowest(state.call.pending), <<>>))

\* a call of generateSnapshot(chain, offset, limit) at t
callGenerateSnapshot(call, cached, dynamic, t) ==
    LET state == generateSnapshot([call |-> call, cache |-> cached], dynamic, t)
    IN  IF state.call.pc = "pending" /\ adapters[state.call.chainKey].immediate
        THEN resolveInOrder(state)
        ELSE state

\* the route handler: GET /api/snapshots/:chain?offset=&limit=
getLatest(chain, query, cached, dynamic, t) ==
    callGenerateSnapshot(
        [IdleCall EXCEPT !.http = TRUE, !.query = query, !.chain = chain,
            !.offset = OrDefault(parseInt(query.offset), DefaultOffset),
            !.limit = OrDefault(parseInt(query.limit), DefaultLimit)],
        cached, dynamic, t)

\* the client whose calls the model follows, one in flight at a time
OneClient == {"a"}

\* the clients of the service
Clients == DOMAIN snapshotCalls

\* the service after construction: refreshDynamicTokens awaits its first
\* fetch
SnapshotConstructed(list) ==
    /\ adapters = AdapterMap(list, Len(list))
    /\ snapshotCache = EmptyMap
    /\ dynamicTokens = EmptyMap
    /\ refresh = "ethereum"
    /\ snapshotCalls = [c \in OneClient |-> IdleCall]
    /\ lastSettled = IdleCall

\* the service registerRoutes constructs
SnapshotIdle == SnapshotConstructed(RouteAdapters)

----------------------------------------------------------------------------
\* the chains whose registry Storage persists
DiscoveryChainIds == {1}

\* the manager and the storage after construction
(* EthersAdapter.getBatchPoolData *)

\* the strings a batch is made of: pool addresses, and one string that is
\* not an address
HexPoolAddresses == {"0xa", "0xb", "0xc"}
BatchAddresses == HexPoolAddresses \cup {"pool"}

\* ethers.isAddress
isAddress(addr) == addr \in HexPoolAddresses

\* what the pool at an address holds on chain
SqrtPriceX96At(address) ==
    CASE address = "0xa" -> 11
      [] address = "0xb" -> 12
      [] OTHER -> 13

LiquidityAt(address) ==
    CASE address = "0xa" -> 21
      [] address = "0xb" -> 22
      [] OTHER -> 23

\* the 32-byte words of the return value of a function of POOL_ABI:
\* slot0() returns seven values, liquidity() one
Slot0Words == 7
LiquidityWords == 1
WordsOf(fn) == IF fn = "slot0" THEN Slot0Words ELSE LiquidityWords

\* the return data of a sub-call that succeeds, as a sequence of words
ReturnValue(call) ==
    IF call.fn = "slot0"
    THEN <<SqrtPriceX96At(call.target), 0, 0, 0, 0, 0, 1>>
    ELSE <<LiquidityAt(call.target)>>

\* the return data aggregate may give for a sub-call: the return value,
\* nothing ("0x"), or data cut short
PossibleReturnData(call) ==
    {ReturnValue(call), <<>>, SubSeq(ReturnValue(call), 1, WordsOf(call.fn) - 1)}

RECURSIVE ReturnDataLists(_)
ReturnDataLists(calls) ==
    IF calls = <<>> THEN {<<>>}
    ELSE {<<data>> \o rest : data \in PossibleReturnData(Head(calls)),
                             rest \in ReturnDataLists(Tail(calls))}

\* Interface.decodeFunctionResult throws on data shorter than the
\* function's return values
Decodable(fn, data) == Len(data) >= WordsOf(fn)

\* validAddresses.flatMap(address => [slot0 call, liquidity call])
callsOf(validAddresses) ==
    [k \in 1..(2 * Len(validAddresses)) |->
        [target |-> validAddresses[(k + 1) \div 2],
         fn |-> IF k % 2 = 1 THEN "slot0" ELSE "liquidity"]]

\* the loop over validAddresses with a decoding failure anywhere thrown to
\* the outer catch
resultsOrNone(validAddresses, returnData) ==
    IF \A i \in 1..Len(validAddresses) :
          /\ Decodable("slot0", returnData[2 * i - 1])
          /\ Decodable("liquidity", returnData[2 * i])
    THEN [i \in 1..Len(validAddresses) |->
            [address |-> validAddresses[i],
             sqrtPriceX96 |-> returnData[2 * i - 1][1],
             liquidity |-> returnData[2 * i][1]]]
    ELSE <<>>

\* the loop over validAddresses: returnData[i * 2] and returnData[i * 2 + 1]
\* are decoded for address i, which is passed over when either throws
resultsOf(validAddresses, returnData) ==
    LET decoded(i) == /\ Decodable("slot0", returnData[2 * i - 1])
                      /\ Decodable("liquidity", returnData[2 * i])
        kept == SelectSeq([i \in 1..Len(validAddresses) |-> i], decoded)
    IN  [r \in 1..Len(kept) |->
            [address |-> validAddresses[kept[r]],
             sqrtPriceX96 |-> returnData[2 * kept[r] - 1][1],
             liquidity |-> returnData[2 * kept[r]][1]]]

\* no call of getBatchPoolData has been made
IdleRead ==
    [pc |-> "idle", poolAddresses |-> <<>>, validAddresses |-> <<>>,
     calls |-> <<>>, returnData |-> <<>>, results |-> <<>>]

\* getBatchPoolData up to `await multicall.aggregate(calls)`, or to its
\* return of [] for no address or no valid address
getBatchPoolData(poolAddresses) ==
    LET validAddresses == SelectSeq(poolAddresses, isAddress)
    IN  IF Len(poolAddresses) = 0 \/ Len(validAddresses) = 0
        THEN [IdleRead EXCEPT !.pc = "returned", !.poolAddresses = poolAddresses,
                              !.validAddresses = validAddresses]
        ELSE [IdleRead EXCEPT !.pc = "aggregate", !.poolAddresses = poolAddresses,
                              !.validAddresses = validAddresses,
                              !.calls = callsOf(validAddresses)]

\* aggregate resolves
onAggregate(read, returnData) ==
    [read EXCEPT !.pc = "returned", !.returnData = returnData,
                 !.results = resultsOf(read.validAddresses, returnData)]

\* aggregate rejects: the outer catch returns []
onAggregateFailed(read) == [read EXCEPT !.pc = "failed"]

BatchIdle == batchRead = IdleRead

DiscoveryIdle ==
    /\ discoveryAttempts = EmptyMap
    /\ storage = [chainId \in DiscoveryChainIds |-> EmptyRegistry]
    /\ discoveries = <<>>

----------------------------------------------------------------------------
(* State machine *)

(* JavaScript runs each callback, and the promise continuations it makes   *)
(* ready, to completion before any timer or I/O callback runs.  The        *)
(* continuation of `await executeBatches` is unrolled into steps: one per  *)
(* turn of the loop over multicallResults (pc = "results"), then the       *)
(* return to executionLoop (pc = "processed") or the rejection reaching    *)
(* the timer callback's .catch (pc = "rejected").  While a tick is at one  *)
(* of these, no other action is enabled and Date.now() does not move, so   *)
(* the steps of one continuation are consecutive.  The engine returns one  *)
(* result per pool of the batches, in pool-input order; the model draws    *)
(* each result when the loop reaches it.                                   *)

Scheduler ==
    [isRunning |-> isRunning, executionLoopIntervalId |-> executionLoopIntervalId,
     timers |-> timers, log |-> lastLog]

SetScheduler(s) ==
    /\ isRunning' = s.isRunning
    /\ executionLoopIntervalId' = s.executionLoopIntervalId
    /\ timers' = s.timers
    /\ lastLog' = s.log

\* an executionLoop invocation at its first await, inside executeForChain:
\*   start    Date.now() when the interval fired
\*   chains   the chain partitions not yet finished; the head is the one
\*            executeForChain is working on
\*   k        the number of results of this chain the loop has processed
\*   result, prev, calls
\*            the result processed last, the alive set before it and the
\*            updatePoolTier calls it made
\*   failed   a read of this tick failed
\*   threw    executeBatches threw for this chain
NewTick(groups, t) ==
    [start |-> t, pc |-> "registry", chains |-> groups, k |-> 0,
     result |-> FailedResult(""), prev |-> <<>>, calls |-> <<>>,
     failed |-> FALSE, threw |-> FALSE]

\* the pools tracked at startup, before the scheduler is started
RECURSIVE TrackAll(_, _, _)
TrackAll(aliveSet, addresses, t) ==
    IF addresses = <<>> THEN aliveSet
    ELSE TrackAll(track(aliveSet, Head(addresses), t), Tail(addresses), t)

InitialAliveSets == {TrackAll(<<>>, addresses, 0) : addresses \in InitialPoolLists}

\* a callback is running
Busy == \E i \in 1..Len(ticks) : ticks[i].pc \in {"results", "processed", "rejected"}

Init ==
    /\ now = 0
    /\ isRunning = FALSE
    /\ executionLoopIntervalId = NullId
    /\ timers = {}
    /\ alive \in InitialAliveSets
    /\ ticks = <<>>
    /\ sharedStateCache = {}
    /\ unhandled = FALSE
    /\ lastLog = "none"
    /\ DiscoveryIdle
    /\ BatchIdle
    /\ SnapshotIdle

Start ==
    /\ UNCHANGED <<discoveryVars, snapshotVars, adapterVars>>
    /\ ~Busy
    /\ SetScheduler(start(Scheduler, now))
    /\ UNCHANGED <<now, alive, ticks, sharedStateCache, unhandled>>

Stop ==
    /\ UNCHANGED <<discoveryVars, snapshotVars, adapterVars>>
    /\ ~Busy
    /\ SetScheduler(stop(Scheduler))
    /\ UNCHANGED <<now, alive, ticks, sharedStateCache, unhandled>>

\* time passes; an interval timer that is due fires before it passes further
AdvanceClock ==
    /\ UNCHANGED <<discoveryVars, snapshotVars, adapterVars>>
    /\ ~Busy
    /\ now < MaxClock
    /\ \A tm \in timers : now < tm.next
    /\ now' = now + ClockStep
    /\ lastLog' = "none"
    /\ UNCHANGED <<isRunning, executionLoopIntervalId, timers, alive, ticks,
                   sharedStateCache, unhandled>>

Rearm(tm) == (timers \ {tm}) \cup {[tm EXCEPT !.next = @ + TimerPeriodMs]}

\* the interval fires and executionLoop finds nothing due
TimerFireIdle(tm) ==
    /\ UNCHANGED <<discoveryVars, snapshotVars, adapterVars>>
    /\ ~Busy
    /\ now >= tm.next
    /\ getPoolsForRefresh(alive, now) = <<>>
    /\ timers' = Rearm(tm)
    /\ lastLog' = "none"
    /\ UNCHANGED <<now, isRunning, executionLoopIntervalId, alive, ticks,
                   sharedStateCache, unhandled>>

\* the interval fires and reading the due pools throws
TimerFireReadFails(tm) ==
    /\ UNCHANGED <<discoveryVars, snapshotVars, adapterVars>>
    /\ ~Busy
    /\ now >= tm.next
    /\ Len(ticks) < MaxInFlight
    /\ timers' = Rearm(tm)
    /\ ticks' = Append(ticks, [NewTick(<<>>, now) EXCEPT !.pc = "rejected",
                                                         !.failed = TRUE])
    /\ lastLog' = "none"
    /\ UNCHANGED <<now, isRunning, executionLoopIntervalId, alive,
                   sharedStateCache, unhandled>>

\* the interval fires; executionLoop groups the due pools by chain and
\* executeForChain for the first chain awaits getPoolRegistry
TimerFire(tm) ==
    /\ UNCHANGED <<discoveryVars, snapshotVars, adapterVars>>
    /\ ~Busy
    /\ now >= tm.next
    /\ Len(ticks) < MaxInFlight
    /\ getPoolsForRefresh(alive, now) # <<>>
    /\ timers' = Rearm(tm)
    /\ ticks' = Append(ticks,
                    NewTick(GroupByChain(getPoolsForRefresh(alive, now), <<>>), now))
    /\ lastLog' = "none"
    /\ UNCHANGED <<now, isRunning, executionLoopIntervalId, alive,
                   sharedStateCache, unhandled>>

\* getPoolRegistry resolves, createBatches returns, executeBatches is awaited
RegistryResolved(i) ==
    /\ UNCHANGED <<discoveryVars, snapshotVars, adapterVars>>
    /\ ~Busy
    /\ ticks[i].pc = "registry"
    /\ ticks' = [ticks EXCEPT ![i].pc = "multicall"]
    /\ lastLog' = "none"
    /\ UNCHANGED <<now, isRunning, executionLoopIntervalId, timers, alive,
                   sharedStateCache, unhandled>>

\* getPoolRegistry rejects or createBatches throws: outside the try block,
\* so executeForChain and executionLoop reject
RegistryFails(i) ==
    /\ UNCHANGED <<discoveryVars, snapshotVars, adapterVars>>
    /\ ~Busy
    /\ ticks[i].pc = "registry"
    /\ ticks' = [ticks EXCEPT ![i].pc = "rejected", ![i].failed = TRUE]
    /\ lastLog' = "none"
    /\ UNCHANGED <<now, isRunning, executionLoopIntervalId, timers, alive,
                   sharedStateCache, unhandled>>

\* executeBatches resolves: the loop over multicallResults begins
MulticallResolved(i) ==
    /\ UNCHANGED <<discoveryVars, snapshotVars, adapterVars>>
    /\ ~Busy
    /\ ticks[i].pc = "multicall"
    /\ ticks' = [ticks EXCEPT ![i].pc = "results", ![i].k = 0]
    /\ lastLog' = "none"
    /\ UNCHANGED <<now, isRunning, executionLoopIntervalId, timers, alive,
                   sharedStateCache, unhandled>>

\* one turn of the loop over multicallResults
ProcessNext(i) ==
    /\ UNCHANGED <<discoveryVars, snapshotVars, adapterVars>>
    /\ ticks[i].pc = "results"
    /\ LET pools == Head(ticks[i].chains).pools
           k == ticks[i].k + 1
       IN  \E result \in ResultsFor(pools[k]) :
              LET st == ProcessResult([alive |-> alive, calls |-> <<>>], result, now)
              IN  /\ alive' = st.alive
                  /\ ticks' = [ticks EXCEPT
                         ![i].pc = IF k = Len(pools) THEN "processed" ELSE "results",
                         ![i].k = k,
                         ![i].result = result,
                         ![i].prev = alive,
                         ![i].calls = st.calls,
                         ![i].failed = @ \/ ~(result.success /\ result.data # NoData)]
    /\ lastLog' = "none"
    /\ UNCHANGED <<now, isRunning, executionLoopIntervalId, timers,
                   sharedStateCache, unhandled>>

\* executeBatches rejects: the catch block reschedules the chain's due pools
MulticallThrows(i) ==
    /\ UNCHANGED <<discoveryVars, snapshotVars, adapterVars>>
    /\ ~Busy
    /\ ticks[i].pc = "multicall"
    /\ alive' = RetryAll(alive, Head(ticks[i].chains).pools, now)
    /\ ticks' = [ticks EXCEPT ![i].pc = "processed", ![i].prev = alive,
                              ![i].failed = TRUE,
                              ![i].threw = TRUE]
    /\ lastLog' = "none"
    /\ UNCHANGED <<now, isRunning, executionLoopIntervalId, timers,
                   sharedStateCache, unhandled>>

\* executeForChain returns: the loop goes on to the next chain, or
\* executionLoop resolves
ChainDone(i) ==
    /\ UNCHANGED <<discoveryVars, snapshotVars, adapterVars>>
    /\ ticks[i].pc = "processed"
    /\ ticks' = IF Len(ticks[i].chains) > 1
                THEN [ticks EXCEPT ![i] =
                        [NewTick(Tail(ticks[i].chains), ticks[i].start)
                            EXCEPT !.failed = ticks[i].failed]]
                ELSE RemoveAt(ticks, i)
    /\ lastLog' = "none"
    /\ UNCHANGED <<now, isRunning, executionLoopIntervalId, timers, alive,
                   sharedStateCache, unhandled>>

\* the timer callback's .catch handles the rejected executionLoop
LoopRejected(i) ==
    /\ UNCHANGED <<discoveryVars, snapshotVars, adapterVars>>
    /\ ticks[i].pc = "rejected"
    /\ ticks' = RemoveAt(ticks, i)
    /\ unhandled' = onLoopRejected(unhandled)
    /\ lastLog' = "none"
    /\ UNCHANGED <<now, isRunning, executionLoopIntervalId, timers, alive,
                   sharedStateCache>>

Next ==
    \/ Start
    \/ Stop
    \/ AdvanceClock
    \/ \E tm \in timers : TimerFireIdle(tm)
    \/ \E tm \in timers : TimerFireReadFails(tm)
    \/ \E tm \in timers : TimerFire(tm)
    \/ \E i \in 1..Len(ticks) : RegistryResolved(i)
    \/ \E i \in 1..Len(ticks) : RegistryFails(i)
    \/ \E i \in 1..Len(ticks) : MulticallResolved(i)
    \/ \E i \in 1..Len(ticks) : ProcessNext(i)
    \/ \E i \in 1..Len(ticks) : MulticallThrows(i)
    \/ \E i \in 1..Len(ticks) : ChainDone(i)
    \/ \E i \in 1..Len(ticks) : LoopRejected(i)

Spec == Init /\ [][Next]_vars

----------------------------------------------------------------------------
(* Token Discovery Manager: state machine *)

(* discoverPoolsForTokens suspends at each await: getPoolRegistry          *)
(* (pc = "load"), getPoolAddress ("address"), getPoolState ("state"), the  *)
(* 100 ms pause and savePoolRegistry ("save").  What runs between two      *)
(* awaits is one callback: the retry-window check of the next token        *)
(* (pc = "token") and the recording of the attempt ("record") are steps    *)
(* of the continuation that reached them, and nothing else runs until it   *)
(* suspends.  The pause follows a probe that did not throw; the            *)
(* continuation after it reads and writes locals only, so the pause is     *)
(* part of the step that ends the probe, and the clock moves on its own.   *)
(* Storage reads the registry when getPoolRegistry resolves and replaces   *)
(* it when savePoolRegistry resolves.                                      *)

TokenUni == [address |-> Addr("0x1f98", TRUE), symbol |-> "UNI"]
TokenUniLower == [address |-> Addr("0x1f98", FALSE), symbol |-> "UNI"]
TokenUsdc == [address |-> Addr("0xa0b8", TRUE), symbol |-> "USDC"]
TokenUsdt == [address |-> Addr("0xdac1", FALSE), symbol |-> "USDT"]

\* the (tokens, chainId) arguments of the invocations
DiscoveryRequests ==
    {[tokens |-> tokens, chainId |-> 1] :
        tokens \in {<<TokenUni>>, <<TokenUsdc>>, <<TokenUniLower, TokenUsdt>>}}

\* the invocations the model follows
Invocations == {"first", "second"}

DiscoveryClockStep == DISCOVERY_RETRY_WINDOW \div 2
MaxDiscoveryClock == MaxDiscoveryClockSteps * DiscoveryClockStep

\* the locals of one turn of the loop over tokens:
\*   key                attemptKey
\*   skipped            the retry-window check skipped the token
\*   poolsFoundForToken
\*   addressCalls       the getPoolAddress calls made for it; getPoolState
\*                      is called only with an address one of them returned
\*   recorded           this invocation has set discoveryAttempts[key]
NoToken ==
    [key |-> <<Addr("", FALSE), 0>>,
     skipped |-> FALSE, poolsFoundForToken |-> 0, addressCalls |-> 0,
     recorded |-> FALSE]

\* an invocation awaiting getPoolRegistry:
\*   idx, cand    the index of the token, and of its candidate, it is at
\*   poolRegistry, poolsDiscoveredThisBatch
\*                the locals of discoverPoolsForTokens
\*   inserted     the pools it has added to poolRegistry
\*   skipped      the number of tokens the retry-window check skipped
NewDiscovery(request) ==
    [tokens |-> request.tokens, chainId |-> request.chainId, pc |-> "load",
     idx |-> 0, cand |-> 0, poolRegistry |-> EmptyRegistry,
     poolsDiscoveredThisBatch |-> 0, inserted |-> {}, skipped |-> 0,
     cur |-> NoToken]

\* discoverPoolsForTokens has settled: its locals are gone
Settled(d, pc) ==
    [NewDiscovery([tokens |-> d.tokens, chainId |-> d.chainId]) EXCEPT
        !.pc = pc, !.inserted = d.inserted]

\* the inner loops go on to the next (baseToken, fee): getPoolAddress is
\* called, or the loops are over
NextCandidate(d) ==
    IF d.cand < Len(Candidates(d.chainId))
    THEN [d EXCEPT !.cand = @ + 1, !.pc = "address", !.cur.addressCalls = @ + 1]
    ELSE [d EXCEPT !.pc = "record"]

OnProbeThrewAbort(d) == [d EXCEPT !.pc = "record"]

\* the catch block of a probe: empty, inside both loops
OnProbeThrew(d) == NextCandidate(d)

\* the head of the loop over tokens: the retry-window check
CheckToken(d, attempts, t) ==
    LET key == attemptKey(d.tokens[d.idx], d.chainId)
        entry == [NoToken EXCEPT !.key = key]
    IN  IF InRetryWindow(attempts, key, t)
        THEN [d EXCEPT !.cur = [entry EXCEPT !.skipped = TRUE], !.idx = @ + 1,
                       !.skipped = @ + 1]
        ELSE NextCandidate([d EXCEPT !.cur = entry, !.cand = 0])

\* this.discoveryAttempts.set(attemptKey, {...})
NewAttempt(d, t) ==
    [tokenAddress |-> d.tokens[d.idx].address, chainId |-> d.chainId,
     attemptedAt |-> t, poolsFound |-> d.cur.poolsFoundForToken,
     succeeded |-> d.cur.poolsFoundForToken > 0]

DiscoveryBusy ==
    \E c \in 1..Len(discoveries) : discoveries[c].pc \in {"token", "record"}

DiscoveryInit ==
    /\ now = 0
    /\ isRunning = FALSE
    /\ executionLoopIntervalId = NullId
    /\ timers = {}
    /\ alive = <<>>
    /\ ticks = <<>>
    /\ sharedStateCache = {}
    /\ unhandled = FALSE
    /\ lastLog = "none"
    /\ DiscoveryIdle
    /\ BatchIdle
    /\ SnapshotIdle

DiscoveryClock ==
    /\ ~DiscoveryBusy
    /\ now < MaxDiscoveryClock
    /\ now' = now + DiscoveryClockStep
    /\ UNCHANGED <<schedulerVars, discoveryVars, adapterVars, snapshotVars>>

\* discoverPoolsForTokens(tokens, chainId) is called
StartDiscovery(request) ==
    /\ ~DiscoveryBusy
    /\ Len(discoveries) < Cardinality(Invocations)
    /\ discoveries' = Append(discoveries, NewDiscovery(request))
    /\ UNCHANGED <<now, schedulerVars, snapshotVars, adapterVars, discoveryAttempts, storage>>

\* getPoolRegistry resolves
RegistryLoaded(c) ==
    /\ ~DiscoveryBusy
    /\ discoveries[c].pc = "load"
    /\ discoveries' = [discoveries EXCEPT
                          ![c].poolRegistry = storage[discoveries[c].chainId],
                          ![c].pc = "token", ![c].idx = 1]
    /\ UNCHANGED <<now, schedulerVars, snapshotVars, adapterVars, discoveryAttempts, storage>>

\* getPoolRegistry rejects: discoverPoolsForTokens rejects
RegistryLoadFails(c) ==
    /\ ~DiscoveryBusy
    /\ discoveries[c].pc = "load"
    /\ discoveries' = [discoveries EXCEPT ![c] = Settled(@, "rejected")]
    /\ UNCHANGED <<now, schedulerVars, snapshotVars, adapterVars, discoveryAttempts, storage>>

\* the loop over tokens reaches its next token, or is over and
\* savePoolRegistry is called
NextToken(c) ==
    /\ discoveries[c].pc = "token"
    /\ discoveries' = [discoveries EXCEPT ![c] =
            IF @.idx > Len(@.tokens) THEN [@ EXCEPT !.pc = "save", !.cur = NoToken]
            ELSE CheckToken(@, discoveryAttempts, now)]
    /\ UNCHANGED <<now, schedulerVars, snapshotVars, adapterVars, discoveryAttempts, storage>>

\* getPoolAddress resolves with no address; after the pause the loops go on
AddressAbsent(c) ==
    /\ ~DiscoveryBusy
    /\ discoveries[c].pc = "address"
    /\ discoveries' = [discoveries EXCEPT ![c] = NextCandidate(@)]
    /\ UNCHANGED <<now, schedulerVars, snapshotVars, adapterVars, discoveryAttempts, storage>>

\* getPoolAddress resolves with the pool's address: getPoolState is called
AddressFound(c) ==
    /\ ~DiscoveryBusy
    /\ discoveries[c].pc = "address"
    /\ LET d == discoveries[c]
       IN  HasPoolAddress(d.tokens[d.idx].address,
                          Candidates(d.chainId)[d.cand].baseToken)
    /\ discoveries' = [discoveries EXCEPT ![c].pc = "state"]
    /\ UNCHANGED <<now, schedulerVars, snapshotVars, adapterVars, discoveryAttempts, storage>>

\* getPoolAddress rejects
AddressThrows(c) ==
    /\ ~DiscoveryBusy
    /\ discoveries[c].pc = "address"
    /\ discoveries' = [discoveries EXCEPT ![c] = OnProbeThrew(@)]
    /\ UNCHANGED <<now, schedulerVars, snapshotVars, adapterVars, discoveryAttempts, storage>>

\* getPoolState resolves: the pool is added to poolRegistry; after the pause
\* the loops go on
StateRead(c) ==
    /\ ~DiscoveryBusy
    /\ discoveries[c].pc = "state"
    /\ LET d == discoveries[c]
           candidate == Candidates(d.chainId)[d.cand]
           tokenA == d.tokens[d.idx].address
           poolAddress == computePoolAddress(tokenA, candidate.baseToken,
                                             candidate.fee)
           poolState == readPoolState(tokenA, candidate.baseToken)
       IN  discoveries' = [discoveries EXCEPT ![c] =
              NextCandidate([d EXCEPT
                  !.poolRegistry = addPoolToRegistry(d.poolRegistry, poolAddress,
                                                     poolState, candidate.fee),
                  !.cur.poolsFoundForToken = @ + 1,
                  !.poolsDiscoveredThisBatch = @ + 1,
                  !.inserted = @ \cup {NewPoolMetadata(poolAddress, poolState,
                                                        candidate.fee)}])]
    /\ UNCHANGED <<now, schedulerVars, snapshotVars, adapterVars, discoveryAttempts, storage>>

\* getPoolState rejects
StateThrows(c) ==
    /\ ~DiscoveryBusy
    /\ discoveries[c].pc = "state"
    /\ discoveries' = [discoveries EXCEPT ![c] = OnProbeThrew(@)]
    /\ UNCHANGED <<now, schedulerVars, snapshotVars, adapterVars, discoveryAttempts, storage>>

\* the inner loops are over: the attempt is recorded
RecordAttempt(c) ==
    /\ discoveries[c].pc = "record"
    /\ discoveryAttempts' = Put(discoveryAttempts, discoveries[c].cur.key,
                                NewAttempt(discoveries[c], now))
    /\ discoveries' = [discoveries EXCEPT ![c].cur.recorded = TRUE,
                                          ![c].idx = @ + 1, ![c].pc = "token"]
    /\ UNCHANGED <<now, schedulerVars, snapshotVars, adapterVars, storage>>

\* savePoolRegistry resolves: the chain's registry is now poolRegistry
RegistrySaved(c) ==
    /\ ~DiscoveryBusy
    /\ discoveries[c].pc = "save"
    /\ storage' = [storage EXCEPT ![discoveries[c].chainId] =
                                      discoveries[c].poolRegistry]
    /\ discoveries' = [discoveries EXCEPT ![c] = Settled(@, "done")]
    /\ UNCHANGED <<now, schedulerVars, snapshotVars, adapterVars, discoveryAttempts>>

\* savePoolRegistry rejects: discoverPoolsForTokens rejects
RegistrySaveFails(c) ==
    /\ ~DiscoveryBusy
    /\ discoveries[c].pc = "save"
    /\ discoveries' = [discoveries EXCEPT ![c] = Settled(@, "rejected")]
    /\ UNCHANGED <<now, schedulerVars, snapshotVars, adapterVars, discoveryAttempts, storage>>

DiscoveryNext ==
    \/ DiscoveryClock
    \/ \E request \in DiscoveryRequests : StartDiscovery(request)
    \/ \E c \in 1..Len(discoveries) : RegistryLoaded(c)
    \/ \E c \in 1..Len(discoveries) : RegistryLoadFails(c)
    \/ \E c \in 1..Len(discoveries) : NextToken(c)
    \/ \E c \in 1..Len(discoveries) : AddressAbsent(c)
    \/ \E c \in 1..Len(discoveries) : AddressFound(c)
    \/ \E c \in 1..Len(discoveries) : AddressThrows(c)
    \/ \E c \in 1..Len(discoveries) : StateRead(c)
    \/ \E c \in 1..Len(discoveries) : StateThrows(c)
    \/ \E c \in 1..Len(discoveries) : RecordAttempt(c)
    \/ \E c \in 1..Len(discoveries) : RegistrySaved(c)
    \/ \E c \in 1..Len(discoveries) : RegistrySaveFails(c)

DiscoverySpec == DiscoveryInit /\ [][DiscoveryNext]_vars

----------------------------------------------------------------------------
(* Snapshot Service: state machine *)

(* A step is one callback with the promise continuations it makes ready:   *)
(* a request arriving at the route handler, up to the awaits of            *)
(* generateSnapshot; the settling of one getTopPools call; a fetch of      *)
(* refreshDynamicTokens.  The constructor starts refreshDynamicTokens,     *)
(* which fetches the list of Ethereum, then the list of Polygon.           *)

SnapshotClockStep == CACHE_TTL \div 2
MaxSnapshotClock == MaxSnapshotClockSteps * SnapshotClockStep

\* the requests the route receives
HttpRequests ==
    {[chain |-> Ethereum, query |-> [offset |-> NoQuery, limit |-> NoQuery]],
     [chain |-> Text("ethereum", TRUE),
      query |-> [offset |-> Query(<<"1">>), limit |-> Query(<<"1">>)]],
     [chain |-> Ethereum, query |-> [offset |-> NoQuery, limit |-> Query(<<"0">>)]],
     [chain |-> Ethereum, query |-> [offset |-> Query(<<"5">>), limit |-> NoQuery]],
     [chain |-> Polygon,
      query |-> [offset |-> NoQuery, limit |-> Query(<<"1", "0", "1">>)]],
     [chain |-> Text("bsc", FALSE), query |-> [offset |-> NoQuery, limit |-> NoQuery]]}

\* the (chain, offset, limit) of the direct calls of generateSnapshot
ServiceCalls == {[chain |-> Ethereum, offset |-> 1, limit |-> 0]}

SnapshotInit ==
    /\ now = 0
    /\ isRunning = FALSE
    /\ executionLoopIntervalId = NullId
    /\ timers = {}
    /\ alive = <<>>
    /\ ticks = <<>>
    /\ sharedStateCache = {}
    /\ unhandled = FALSE
    /\ lastLog = "none"
    /\ DiscoveryIdle
    /\ BatchIdle
    /\ SnapshotConstructed(RpcAdapters)

SnapshotClock ==
    /\ now < MaxSnapshotClock
    /\ now' = now + SnapshotClockStep
    /\ UNCHANGED <<schedulerVars, discoveryVars, adapterVars, snapshotVars>>

NextFetch(chain) == IF chain = "ethereum" THEN "polygon" ELSE "done"

\* a fetch of refreshDynamicTokens resolves, with a list (ok) or without
RefreshFetched(ok) ==
    /\ refresh # "done"
    /\ dynamicTokens' =
          IF ok
          THEN Put(dynamicTokens, Text(refresh, FALSE),
                   FetchedTokens(Text(refresh, FALSE)))
          ELSE dynamicTokens
    /\ refresh' = NextFetch(refresh)
    /\ UNCHANGED <<now, schedulerVars, discoveryVars, adapterVars, adapters, snapshotCache,
                   snapshotCalls, lastSettled>>

\* a fetch rejects: the catch block logs it
RefreshThrows ==
    /\ refresh # "done"
    /\ refresh' = "done"
    /\ UNCHANGED <<now, schedulerVars, discoveryVars, adapterVars, adapters, snapshotCache,
                   dynamicTokens, snapshotCalls, lastSettled>>

\* client c has no call in flight
Free(c) == snapshotCalls[c].pc = "idle"

\* the step of client c's call ends in state: a call stays in flight
\* while a getTopPools call of its is outstanding
SetSnapshot(c, state) ==
    /\ snapshotCalls' = [snapshotCalls EXCEPT ![c] =
                            IF state.call.pending = {} THEN IdleCall
                            ELSE state.call]
    /\ lastSettled' = IF /\ state.call.pc \in {"resolved", "rejected"}
                         /\ snapshotCalls[c].pc \in {"idle", "pending"}
                      THEN state.call
                      ELSE lastSettled
    /\ snapshotCache' = state.cache

\* GET /api/snapshots/:chain arrives
HttpGet(c, request) ==
    /\ Free(c)
    /\ SetSnapshot(c, getLatest(request.chain, request.query, snapshotCache,
                                dynamicTokens, now))
    /\ UNCHANGED <<now, schedulerVars, discoveryVars, adapterVars, adapters, dynamicTokens,
                   refresh>>

\* generateSnapshot(chain, offset, limit) is called
CallGenerateSnapshot(c, args) ==
    /\ Free(c)
    /\ SetSnapshot(c, callGenerateSnapshot(
                          [IdleCall EXCEPT !.chain = args.chain,
                              !.offset = args.offset, !.limit = args.limit],
                          snapshotCache, dynamicTokens, now))
    /\ UNCHANGED <<now, schedulerVars, discoveryVars, adapterVars, adapters, dynamicTokens,
                   refresh>>

\* getTopPools resolves for token i of the window
TopPoolsResolved(c, i, pools) ==
    /\ i \in snapshotCalls[c].pending
    /\ SetSnapshot(c, onTopPools([call |-> snapshotCalls[c], cache |-> snapshotCache],
                                 i, pools))
    /\ UNCHANGED <<now, schedulerVars, discoveryVars, adapterVars, adapters, dynamicTokens,
                   refresh>>

\* getTopPools rejects for token i of the window
TopPoolsRejected(c, i) ==
    /\ i \in snapshotCalls[c].pending
    /\ SetSnapshot(c, onTopPoolsRejected(
                          [call |-> snapshotCalls[c], cache |-> snapshotCache],
                          i, ReadError))
    /\ UNCHANGED <<now, schedulerVars, discoveryVars, adapterVars, adapters, dynamicTokens,
                   refresh>>

SnapshotNext ==
    \/ SnapshotClock
    \/ \E ok \in BOOLEAN : RefreshFetched(ok)
    \/ RefreshThrows
    \/ \E c \in Clients :
          \/ \E request \in HttpRequests : HttpGet(c, request)
          \/ \E args \in ServiceCalls : CallGenerateSnapshot(c, args)
          \/ \E i \in snapshotCalls[c].pending :
                \E pools \in TopPoolLists : TopPoolsResolved(c, i, pools)
          \/ \E i \in snapshotCalls[c].pending : TopPoolsRejected(c, i)

SnapshotSpec == SnapshotInit /\ [][SnapshotNext]_vars

\* the service as registerRoutes constructs it, behind its route
RouteInit ==
    /\ now = 0
    /\ isRunning = FALSE
    /\ executionLoopIntervalId = NullId
    /\ timers = {}
    /\ alive = <<>>
    /\ ticks = <<>>
    /\ sharedStateCache = {}
    /\ unhandled = FALSE
    /\ lastLog = "none"
    /\ DiscoveryIdle
    /\ BatchIdle
    /\ SnapshotIdle

RouteNext ==
    \/ SnapshotClock
    \/ \E ok \in BOOLEAN : RefreshFetched(ok)
    \/ RefreshThrows
    \/ \E c \in Clients : \E request \in HttpRequests : HttpGet(c, request)

RouteSpec == RouteInit /\ [][RouteNext]_vars

\* two callers of generateSnapshot at once, each with one call in flight
TwoClients == {"a", "b"}

\* the (chain, offset, limit) of their calls: the first two tokens of
\* Ethereum's list
ConcurrentCalls == {[chain |-> Ethereum, offset |-> 0, limit |-> 2]}

ConcurrentInit ==
    /\ now = 0
    /\ isRunning = FALSE
    /\ executionLoopIntervalId = NullId
    /\ timers = {}
    /\ alive = <<>>
    /\ ticks = <<>>
    /\ sharedStateCache = {}
    /\ unhandled = FALSE
    /\ lastLog = "none"
    /\ DiscoveryIdle
    /\ BatchIdle
    /\ adapters = AdapterMap(RpcAdapters, Len(RpcAdapters))
    /\ snapshotCache = EmptyMap
    /\ dynamicTokens = EmptyMap
    /\ refresh = "ethereum"
    /\ snapshotCalls = [c \in TwoClients |-> IdleCall]
    /\ lastSettled = IdleCall

ConcurrentNext ==
    \/ SnapshotClock
    \/ \E ok \in BOOLEAN : RefreshFetched(ok)
    \/ RefreshThrows
    \/ \E c \in Clients :
          \/ \E args \in ConcurrentCalls : CallGenerateSnapshot(c, args)
          \/ \E i \in snapshotCalls[c].pending :
                \E pools \in TopPoolLists : TopPoolsResolved(c, i, pools)
          \/ \E i \in snapshotCalls[c].pending : TopPoolsRejected(c, i)

ConcurrentSpec == ConcurrentInit /\ [][ConcurrentNext]_vars

\* the lists getBatchPoolData is called with: the pools of a batch, each
\* once
BatchInputs ==
    {list \in UNION {[1..n -> BatchAddresses] : n \in 0..MaxBatch} :
        \A i, j \in 1..Len(list) : i # j => list[i] # list[j]}

BatchInit ==
    /\ now = 0
    /\ isRunning = FALSE
    /\ executionLoopIntervalId = NullId
    /\ timers = {}
    /\ alive = <<>>
    /\ ticks = <<>>
    /\ sharedStateCache = {}
    /\ unhandled = FALSE
    /\ lastLog = "none"
    /\ DiscoveryIdle
    /\ SnapshotIdle
    /\ BatchIdle

\* getBatchPoolData(poolAddresses) is called
GetBatchPoolData(poolAddresses) ==
    /\ batchRead.pc # "aggregate"
    /\ batchRead' = getBatchPoolData(poolAddresses)
    /\ UNCHANGED <<now, schedulerVars, discoveryVars, snapshotVars>>

\* multicall.aggregate resolves with one return-data entry per call
AggregateResolved(returnData) ==
    /\ batchRead.pc = "aggregate"
    /\ batchRead' = onAggregate(batchRead, returnData)
    /\ UNCHANGED <<now, schedulerVars, discoveryVars, snapshotVars>>

\* multicall.aggregate rejects
AggregateRejected ==
    /\ batchRead.pc = "aggregate"
    /\ batchRead' = onAggregateFailed(batchRead)
    /\ UNCHANGED <<now, schedulerVars, discoveryVars, snapshotVars>>

BatchNext ==
    \/ \E poolAddresses \in BatchInputs : GetBatchPoolData(poolAddresses)
    \/ \E returnData \in ReturnDataLists(batchRead.calls) : AggregateResolved(returnData)
    \/ AggregateRejected

BatchSpec == BatchInit /\ [][BatchNext]_vars

----------------------------------------------------------------------------
(* Properties *)

InExecuteForChain(i) == ticks[i].pc \in {"registry", "multicall", "results", "processed"}

\* tick i has just processed a result: alive is the alive set after it
Observed(i) == ticks[i].pc \in {"results", "processed"} /\ ticks[i].k > 0

HasData(result) == result.success /\ result.data # NoData

SameBlock(result, pool) ==
    result.blockNumber = pool.lastBlockSeen /\ result.blockNumber # 0

CalledFor(i, address) ==
    \E c \in 1..Len(ticks[i].calls) : ticks[i].calls[c].address = address

\* C1: a successful result whose block number is the pool's lastBlockSeen,
\* and not 0, leaves the pool's lastPrice, tier and lastBlockSeen as they
\* were, and updatePoolTier is not called for the pool.
C1_BlockAwareSkipFrame ==
    \A i \in 1..Len(ticks) :
        Observed(i) =>
            LET r == ticks[i].result
                j == FindPool(ticks[i].prev, r.poolAddress)
            IN  (j # 0 /\ r.success /\ SameBlock(r, ticks[i].prev[j])) =>
                    /\ alive[j].lastPrice = ticks[i].prev[j].lastPrice
                    /\ alive[j].tier = ticks[i].prev[j].tier
                    /\ alive[j].lastBlockSeen = ticks[i].prev[j].lastBlockSeen
                    /\ ~CalledFor(i, r.poolAddress)

C1_Witness ==
    \E i \in 1..Len(ticks) :
        /\ Observed(i)
        /\ LET r == ticks[i].result
               j == FindPool(ticks[i].prev, r.poolAddress)
           IN  /\ j # 0
               /\ HasData(r)
               /\ SameBlock(r, ticks[i].prev[j])
               /\ ticks[i].prev[j].lastPrice # PriceOf(r.data.sqrtPriceX96)
               /\ alive[j] = ticks[i].prev[j]

\* C2: on a block-aware skip the scheduler sets the pool's nextRefresh to
\* now + tierInterval(tier), so the pool is no longer due.
C2_SkipReschedules ==
    \A i \in 1..Len(ticks) :
        Observed(i) =>
            LET r == ticks[i].result
                j == FindPool(ticks[i].prev, r.poolAddress)
            IN  (j # 0 /\ HasData(r) /\ SameBlock(r, ticks[i].prev[j])) =>
                    /\ alive[j].nextRefresh = now + TierInterval(ticks[i].prev[j].tier)
                    /\ alive[j].nextRefresh > now

\* C3: a result with success = false, or without data, sets the pool's
\* nextRefresh to now + 5 s and leaves its tier unchanged.
C3_FailedResultRetries ==
    \A i \in 1..Len(ticks) :
        Observed(i) =>
            LET r == ticks[i].result
                j == FindPool(ticks[i].prev, r.poolAddress)
            IN  (j # 0 /\ ~HasData(r)) =>
                    /\ alive[j].nextRefresh = now + RetryDelayMs
                    /\ alive[j].tier = ticks[i].prev[j].tier

\* C4: when executeBatches throws for a chain, every pool that was due for
\* that chain gets nextRefresh = now + 5 s, no pool's tier changes, and
\* executeForChain returns normally: nothing reaches the scheduler loop.
C4_BatchFailureRetriesAll ==
    \A i \in 1..Len(ticks) :
        ticks[i].threw =>
            /\ ticks[i].pc = "processed"
            /\ ~unhandled
            /\ \A k \in 1..Len(Head(ticks[i].chains).pools) :
                  LET j == FindPool(alive, Head(ticks[i].chains).pools[k])
                  IN  j # 0 /\ alive[j].nextRefresh = now + RetryDelayMs
            /\ \A j \in 1..Len(alive) : alive[j].tier = ticks[i].prev[j].tier

C4_Witness ==
    \E i \in 1..Len(ticks) :
        /\ ticks[i].threw
        /\ Len(Head(ticks[i].chains).pools) > 1
        /\ \A k \in 1..Len(Head(ticks[i].chains).pools) :
              LET j == FindPool(alive, Head(ticks[i].chains).pools[k])
              IN  ticks[i].prev[j].nextRefresh # now + RetryDelayMs

\* C5: when a tick in which no read failed completes, every alive pool has
\* nextRefresh greater than the tick's start time.
C5_NoBacklog ==
    \A i \in 1..Len(ticks) :
        (ticks[i].pc = "processed" /\ Len(ticks[i].chains) = 1 /\ ~ticks[i].failed) =>
            \A j \in 1..Len(alive) : alive[j].nextRefresh > ticks[i].start

\* C6: at most one executeForChain per chain is in flight.
C6_NonReentrantPerChain ==
    \A i, j \in 1..Len(ticks) :
        (i # j /\ InExecuteForChain(i) /\ InExecuteForChain(j)) =>
            Head(ticks[i].chains).chainId # Head(ticks[j].chains).chainId

StartStep == lastLog' \in {"starting", "already running"}

\* C7: start() on a running scheduler installs no timer and changes no
\* state, and there is never more than one interval timer.
C7_StartIdempotent ==
    /\ [](Cardinality(timers) <= 1)
    /\ [][(isRunning /\ StartStep) =>
            /\ isRunning'
            /\ timers' = timers
            /\ executionLoopIntervalId' = executionLoopIntervalId
            /\ UNCHANGED <<now, alive, ticks, sharedStateCache, unhandled>>]_vars

C7_Witness == isRunning /\ lastLog = "already running" /\ Cardinality(timers) = 1

Rejected == \E i \in 1..Len(ticks) : ticks[i].pc = "rejected"

\* C8: a failure of a tick never escapes the timer callback; handling it
\* leaves the scheduler running with its timer installed, so the next
\* period's tick runs, and leaves the alive set as it was, so the pools
\* that are due are read again.
C8_TickFailureSwallowed ==
    /\ [](~unhandled)
    /\ [](isRunning => \E tm \in timers : tm.id = executionLoopIntervalId
                                          /\ tm.next <= now + TimerPeriodMs)
    /\ [][(Rejected \/ Rejected') =>
            /\ isRunning' = isRunning
            /\ executionLoopIntervalId' = executionLoopIntervalId
            /\ \A tm \in timers : \E tn \in timers' : tn.id = tm.id
            /\ alive' = alive
            /\ ~unhandled']_vars

C8_Witness ==
    /\ isRunning
    /\ \E i \in 1..Len(ticks) :
          /\ ticks[i].pc = "rejected"
          /\ ticks[i].chains # <<>>
          /\ \E j \in 1..Len(alive) : alive[j].nextRefresh <= now

\* C9: a successful result that is not a block-aware skip makes exactly one
\* updatePoolTier(address, price) call, made while the pool's lastPrice is
\* still the previous observation; afterwards lastBlockSeen is the result's
\* block number and lastPrice is the price, sqrt(sqrtPriceX96 / 2^96).
C9_FreshResultApplied ==
    \A i \in 1..Len(ticks) :
        Observed(i) =>
            LET r == ticks[i].result
                j == FindPool(ticks[i].prev, r.poolAddress)
            IN  (j # 0 /\ HasData(r) /\ ~SameBlock(r, ticks[i].prev[j])) =>
                    /\ Len(ticks[i].calls) = 1
                    /\ ticks[i].calls[1].address = r.poolAddress
                    /\ ticks[i].calls[1].price * ticks[i].calls[1].price
                          = r.data.sqrtPriceX96
                    /\ ticks[i].calls[1].lastPrice = ticks[i].prev[j].lastPrice
                    /\ alive[j].lastBlockSeen = r.blockNumber
                    /\ alive[j].lastPrice = ticks[i].calls[1].price

C9_Witness ==
    \E i \in 1..Len(ticks) :
        /\ Observed(i)
        /\ LET r == ticks[i].result
               j == FindPool(ticks[i].prev, r.poolAddress)
           IN  /\ j # 0
               /\ HasData(r)
               /\ ~SameBlock(r, ticks[i].prev[j])
               /\ ticks[i].prev[j].lastPrice > 0
               /\ alive[j].lastPrice # ticks[i].prev[j].lastPrice
               /\ alive[j].lastBlockSeen # ticks[i].prev[j].lastBlockSeen

\* C10: after a successful result that is not a block-aware skip, the
\* Shared State Cache holds, under the chain and the pool's address, a
\* sample with the result's sqrtPriceX96, liquidity and block number.
C10_CacheHoldsLastResult ==
    \A i \in 1..Len(ticks) :
        Observed(i) =>
            LET r == ticks[i].result
                j == FindPool(ticks[i].prev, r.poolAddress)
            IN  (j # 0 /\ HasData(r) /\ ~SameBlock(r, ticks[i].prev[j])) =>
                    \E sample \in sharedStateCache :
                        /\ sample.chainId = Head(ticks[i].chains).chainId
                        /\ sample.poolAddress = r.poolAddress
                        /\ sample.sqrtPriceX96 = r.data.sqrtPriceX96
                        /\ sample.liquidity = r.data.liquidity
                        /\ sample.blockNumber = r.blockNumber

\* C11: a successful result with sqrtPriceX96 = 0 gives price 0, leaves the
\* pool's tier as it was, and the tick goes on without raising.
C11_ZeroPriceKeepsTier ==
    \A i \in 1..Len(ticks) :
        Observed(i) =>
            LET r == ticks[i].result
                j == FindPool(ticks[i].prev, r.poolAddress)
            IN  (j # 0 /\ HasData(r) /\ ~SameBlock(r, ticks[i].prev[j])
                       /\ r.data.sqrtPriceX96 = 0) =>
                    /\ alive[j].lastPrice = 0
                    /\ alive[j].tier = ticks[i].prev[j].tier
                    /\ ~unhandled

----------------------------------------------------------------------------
(* Properties of the Token Discovery Manager *)

Discovery(c) == discoveries[c]

TokenOf(d) == d.tokens[d.idx]

\* the registries there are: the persisted ones and the poolRegistry of
\* each invocation
Registries ==
    {storage[chainId] : chainId \in DiscoveryChainIds}
    \cup {discoveries[c].poolRegistry : c \in 1..Len(discoveries)}

HasRoute(registry, token, pool, base) ==
    /\ HasKey(registry.pricingRoutes, toLowerCase(token))
    /\ \E r \in 1..Len(registry.pricingRoutes[toLowerCase(token)]) :
          registry.pricingRoutes[toLowerCase(token)][r] = [pool |-> pool, base |-> base]

\* invocation c is at the retry-window check of a token whose recorded
\* attempt is less than 5 minutes old
AtCheckInsideWindow(c) ==
    /\ Discovery(c).pc = "token"
    /\ Discovery(c).idx <= Len(Discovery(c).tokens)
    /\ LET key == <<toLowerCase(TokenOf(Discovery(c)).address), Discovery(c).chainId>>
       IN  /\ key \in DOMAIN discoveryAttempts
           /\ now - discoveryAttempts[key].attemptedAt < DISCOVERY_RETRY_WINDOW

\* C12: a token whose attempt was recorded less than 5 minutes ago is
\* skipped: no getPoolAddress or getPoolState call is made for it and the
\* recorded attempt stays as it was, whether it had found pools or not.
C12_RetryWindowSkips ==
    [][\A c \in 1..Len(discoveries) :
          AtCheckInsideWindow(c) =>
              /\ discoveries'[c].cur.skipped
              /\ discoveries'[c].cur.addressCalls = 0
              /\ discoveries'[c].pc = "token"
              /\ discoveries'[c].idx = discoveries[c].idx + 1
              /\ discoveries'[c].poolRegistry = discoveries[c].poolRegistry
              /\ discoveryAttempts' = discoveryAttempts]_vars

C12_Witness ==
    \E c \in 1..Len(discoveries) :
        /\ Discovery(c).pc = "token"
        /\ Discovery(c).cur.skipped
        /\ Discovery(c).cur.addressCalls = 0
        /\ ~discoveryAttempts[Discovery(c).cur.key].succeeded
        /\ discoveryAttempts[Discovery(c).cur.key].attemptedAt < now
        /\ now - discoveryAttempts[Discovery(c).cur.key].attemptedAt < DISCOVERY_RETRY_WINDOW

\* C13: when an invocation that skipped every token completes, the
\* persisted registry is what it was: the invocation changes nothing,
\* whatever other invocations did meanwhile.
C13_WindowedCallIsNoOp ==
    [][\A c \in 1..Len(discoveries) :
          (/\ Discovery(c).pc = "save"
           /\ Discovery(c).skipped = Len(Discovery(c).tokens)
           /\ discoveries'[c].pc = "done") => storage' = storage]_vars

Probing(c) == Discovery(c).pc \in {"address", "state", "record"}

\* C14: no two invocations probe for the same (token, chain) at the same
\* time: the one that reaches the token second skips it.
C14_SameTokenSerialized ==
    \A c1, c2 \in 1..Len(discoveries) :
        (c1 # c2 /\ Probing(c1) /\ Probing(c2)) =>
            Discovery(c1).cur.key # Discovery(c2).cur.key

TokenKeys(d) == {toLowerCase(d.tokens[i].address) : i \in 1..Len(d.tokens)}

Persisted(registry, metadata) ==
    /\ HasKey(registry.pools, metadata.address)
    /\ HasRoute(registry, metadata.token0, metadata.address, metadata.token1)
    /\ HasRoute(registry, metadata.token1, metadata.address, metadata.token0)

\* C15: once two invocations for disjoint token sets have both completed,
\* the persisted registry holds every pool, with its two routes, that
\* either of them added.
C15_DisjointDiscoveriesKeepPools ==
    \A c1, c2 \in 1..Len(discoveries) :
        (/\ c1 # c2
         /\ Discovery(c1).pc = "done" /\ Discovery(c2).pc = "done"
         /\ Discovery(c1).chainId = Discovery(c2).chainId
         /\ TokenKeys(Discovery(c1)) \cap TokenKeys(Discovery(c2)) = {}) =>
            \A metadata \in Discovery(c1).inserted \cup Discovery(c2).inserted :
                Persisted(storage[Discovery(c1).chainId], metadata)

NoDuplicateRoutes(registry) ==
    \A token \in DOMAIN registry.pricingRoutes :
        \A i, j \in 1..Len(registry.pricingRoutes[token]) :
            i # j => registry.pricingRoutes[token][i] # registry.pricingRoutes[token][j]

\* C16: no route list of a registry holds the same (pool, base) twice.
C16_NoDuplicateRoutes == \A registry \in Registries : NoDuplicateRoutes(registry)

\* C17: in every registry, the pool of every route is a key of pools.
C17_RoutePoolsAreKeys ==
    \A registry \in Registries :
        \A token \in DOMAIN registry.pricingRoutes :
            \A r \in 1..Len(registry.pricingRoutes[token]) :
                registry.pricingRoutes[token][r].pool \in DOMAIN registry.pools

C17_Witness ==
    \E chainId \in DiscoveryChainIds :
        \E token \in DOMAIN storage[chainId].pricingRoutes :
            /\ Len(storage[chainId].pricingRoutes[token]) > 1
            /\ storage[chainId].pricingRoutes[token][1].pool
                  # storage[chainId].pricingRoutes[token][2].pool

\* C18: in every registry, each pool P with tokens (t0, t1) has a route
\* (P, base t1) under lowercase(t0) and a route (P, base t0) under
\* lowercase(t1).
C18_PoolsHaveBothRoutes ==
    \A registry \in Registries :
        \A pool \in DOMAIN registry.pools :
            /\ HasRoute(registry, registry.pools[pool].token0, pool,
                        registry.pools[pool].token1)
            /\ HasRoute(registry, registry.pools[pool].token1, pool,
                        registry.pools[pool].token0)

C18_Witness ==
    \E chainId \in DiscoveryChainIds :
        /\ Cardinality(DOMAIN storage[chainId].pools) > 1
        /\ Cardinality(DOMAIN storage[chainId].pricingRoutes) > 2

\* C19: every key of pools and of pricingRoutes in a persisted registry is
\* the lowercase form of the address.
C19_KeysAreLowercase ==
    \A chainId \in DiscoveryChainIds :
        /\ \A pool \in DOMAIN storage[chainId].pools : ~pool.checksum
        /\ \A token \in DOMAIN storage[chainId].pricingRoutes : ~token.checksum

\* invocation c takes a step in which a probe ends without a pool: the
\* address is none, or getPoolAddress or getPoolState fails
ProbeFails(c) ==
    /\ discoveries'[c] # discoveries[c]
    /\ \/ Discovery(c).pc = "address" /\ discoveries'[c].pc # "state"
       \/ /\ Discovery(c).pc = "state"
          /\ discoveries'[c].cur.poolsFoundForToken
                = Discovery(c).cur.poolsFoundForToken

\* C20: a probe that ends without a pool adds nothing to the registry and
\* the next candidate, if there is one, is probed; when the candidates are
\* over each of them has been probed and the attempt is recorded, with the
\* number of pools found, also when that is 0.
C20_FailedProbeGoesOn ==
    [][\A c \in 1..Len(discoveries) :
          /\ ProbeFails(c) =>
                /\ discoveries'[c].poolRegistry = Discovery(c).poolRegistry
                /\ discoveries'[c].inserted = Discovery(c).inserted
                /\ IF Discovery(c).cand < Len(Candidates(Discovery(c).chainId))
                   THEN /\ discoveries'[c].pc = "address"
                        /\ discoveries'[c].cand = Discovery(c).cand + 1
                   ELSE discoveries'[c].pc = "record"
          /\ Discovery(c).pc = "record" =>
                /\ Discovery(c).cur.addressCalls = Len(Candidates(Discovery(c).chainId))
                /\ Discovery(c).cur.key \in DOMAIN discoveryAttempts'
                /\ discoveryAttempts'[Discovery(c).cur.key].attemptedAt = now
                /\ discoveryAttempts'[Discovery(c).cur.key].poolsFound
                      = Discovery(c).cur.poolsFoundForToken
                /\ discoveryAttempts'[Discovery(c).cur.key].succeeded
                      = (Discovery(c).cur.poolsFoundForToken > 0)]_vars

C20_Witness ==
    \E c \in 1..Len(discoveries) :
        /\ Discovery(c).pc = "token"
        /\ Discovery(c).cur.recorded
        /\ Discovery(c).cur.poolsFoundForToken = 0
        /\ Discovery(c).cur.addressCalls > 1
        /\ ~discoveryAttempts[Discovery(c).cur.key].succeeded
        /\ discoveryAttempts[Discovery(c).cur.key].attemptedAt = now

\* the tokens of invocation d that metadata is a pool of
PoolTokensOf(d, metadata) ==
    {i \in 1..Len(d.tokens) :
        toLowerCase(d.tokens[i].address)
            \in {toLowerCase(metadata.token0), toLowerCase(metadata.token1)}}

\* C21: a Storage failure does not make discoverPoolsForTokens raise to
\* its caller, and once an invocation has ended, a token of its whose
\* discovered pool is not in the persisted registry has no recorded
\* attempt inside the retry window.
C21_StorageFailureTolerated ==
    \A c \in 1..Len(discoveries) :
        /\ Discovery(c).pc # "rejected"
        /\ Discovery(c).pc \in {"done", "rejected"} =>
              \A metadata \in Discovery(c).inserted :
                  ~Persisted(storage[Discovery(c).chainId], metadata) =>
                      \A i \in PoolTokensOf(Discovery(c), metadata) :
                          ~InRetryWindow(discoveryAttempts,
                                         attemptKey(Discovery(c).tokens[i],
                                                    Discovery(c).chainId),
                                         now)

\* C22: every pool an invocation has added to the registry is in the
\* Pool Controller's alive set.
C22_DiscoveredPoolsAreTracked ==
    \A c \in 1..Len(discoveries) :
        \A metadata \in Discovery(c).inserted :
            \E i \in 1..Len(alive) : alive[i].address = metadata.address

----------------------------------------------------------------------------
(* Properties of the Snapshot Service and its route *)

\* the call client c's request has started in this step
Started(c) ==
    IF snapshotCalls'[c].pc # "idle" THEN snapshotCalls'[c] ELSE lastSettled'

\* no pricing route of a persisted registry is keyed by the token
Routeless(meta) ==
    \A chainId \in DiscoveryChainIds :
        ~HasKey(storage[chainId].pricingRoutes, toLowerCase(meta.address))

\* C23: when a snapshot has been returned whose window holds a token with
\* no pricing route, a discovery invocation has been started.
C23_RoutelessTokensStartDiscovery ==
    (/\ lastSettled.pc = "resolved"
     /\ \E i \in 1..Len(lastSettled.windowedMetadata) :
           Routeless(lastSettled.windowedMetadata[i]))
        => Len(discoveries) > 0

\* C24: a request for a chain whose lowercase name has no adapter is
\* answered 404 "Chain not supported" and leaves the cache as it was, and
\* no other request is answered 404; a request that fails otherwise is
\* answered 500 "Internal server error"; a request for a chain that has an
\* adapter is served by the adapter of the lowercase name, whatever the
\* letter case, and the cache is keyed by lowercase chain names only.
C24_UnknownChainIs404 ==
    [][\A c \in Clients :
          /\ \A request \in HttpRequests :
                HttpGet(c, request) =>
                    IF HasKey(adapters, lowerCase(request.chain))
                    THEN /\ Started(c).response.status \in {0, 200}
                         /\ Started(c).chainKey = lowerCase(request.chain)
                         /\ snapshotOf(Started(c)).chain
                               = adapters[lowerCase(request.chain)].chainName
                    ELSE /\ lastSettled'.chain = request.chain
                         /\ lastSettled'.response
                               = [status |-> 404, message |-> "Chain not supported"]
                         /\ snapshotCache' = snapshotCache
          /\ \A i \in snapshotCalls[c].pending :
                (TopPoolsRejected(c, i) /\ snapshotCalls[c].pc = "pending"
                                        /\ snapshotCalls[c].http) =>
                    /\ lastSettled'.query = snapshotCalls[c].query
                    /\ lastSettled'.response
                          = [status |-> 500, message |-> "Internal server error"]
          /\ \A key \in DOMAIN snapshotCache' : key[1] = lowerCase(key[1])]_vars

C24_Witness ==
    /\ lastSettled.http
    /\ lastSettled.chain = Text("bsc", FALSE)
    /\ lastSettled.response.status = 404
    /\ <<Ethereum, Addr("0x1f98", FALSE)>> \in DOMAIN snapshotCache

CachedWithinTtl(key) ==
    /\ key \in DOMAIN snapshotCache
    /\ now - snapshotCache[key].timestamp < 10000

\* C26: a request returns for each token of its window the entry cached
\* for (lowercase chain, lowercase address) when that is less than 10 s
\* old, without a getTopPools call and without writing the cache; else a
\* getTopPools call is made, and when it resolves the entry computed from
\* it is cached with the request's timestamp.
C26_CacheTtl ==
    [][\A c \in Clients :
          /\ (Free(c) /\ Started(c) # lastSettled /\ Started(c).pc # "rejected") =>
                \A i \in 1..Len(Started(c).windowedMetadata) :
                    LET key == <<lowerCase(Started(c).chain),
                                 toLowerCase(Started(c).windowedMetadata[i].address)>>
                    IN  IF CachedWithinTtl(key)
                        THEN /\ Started(c).entries[i] = snapshotCache[key].entry
                             /\ i \notin Started(c).pending
                             /\ snapshotCache'[key] = snapshotCache[key]
                        ELSE /\ i \in Started(c).pending
                             /\ Started(c).entries[i] = NoEntry
          /\ \A i \in snapshotCalls[c].pending : \A pools \in TopPoolLists :
                TopPoolsResolved(c, i, pools) =>
                    LET call == snapshotCalls[c]
                        meta == call.windowedMetadata[i]
                        key == <<lowerCase(call.chain), toLowerCase(meta.address)>>
                    IN  /\ key \in DOMAIN snapshotCache'
                        /\ snapshotCache'[key].timestamp = call.now
                        /\ snapshotCache'[key].entry.token.address = meta.address
                        /\ snapshotCache'[key].entry.priceUSD > 0]_vars

C26_Witness ==
    \E c \in Clients :
        /\ snapshotCalls[c].pc = "pending"
        /\ snapshotCalls[c].now = now
        /\ \E i \in 1..Len(snapshotCalls[c].windowedMetadata) :
              LET key == <<snapshotCalls[c].chainKey,
                           toLowerCase(snapshotCalls[c].windowedMetadata[i].address)>>
              IN  /\ i \notin snapshotCalls[c].pending
                  /\ key \in DOMAIN snapshotCache
                  /\ snapshotCache[key].timestamp < now
                  /\ snapshotCalls[c].entries[i] = snapshotCache[key].entry
        /\ \E j \in snapshotCalls[c].pending :
              LET key == <<snapshotCalls[c].chainKey,
                           toLowerCase(snapshotCalls[c].windowedMetadata[j].address)>>
              IN  /\ key \in DOMAIN snapshotCache
                  /\ now - snapshotCache[key].timestamp = 10000

NoDuplicateAddresses(list) ==
    \A i, j \in 1..Len(list) :
        i # j => toLowerCase(list[i].address) # toLowerCase(list[j].address)

\* C27: no two tokens of the merged list a call windows have the same
\* lowercase address.
C27_MergedListHasNoDuplicates ==
    /\ NoDuplicateAddresses(lastSettled.allMetadata)
    /\ \A c \in Clients : NoDuplicateAddresses(snapshotCalls[c].allMetadata)

\* C28: the entries of a snapshot returned for offset >= 0 and limit >= 0
\* are one per token at the positions [offset, offset + limit) of the
\* merged list, in order, each with the address of its token; they are
\* none when offset is at least the length of the list.
C28_EntriesAreTheWindow ==
    (lastSettled.pc = "resolved" /\ lastSettled.offset >= 0 /\ lastSettled.limit >= 0) =>
        LET merged == lastSettled.allMetadata
            last == lastSettled.offset + lastSettled.limit
            from == IF lastSettled.offset > Len(merged) THEN Len(merged)
                    ELSE lastSettled.offset
            to == IF last > Len(merged) THEN Len(merged) ELSE last
        IN  /\ Len(lastSettled.entries) = to - from
            /\ \A i \in 1..(to - from) :
                  lastSettled.entries[i].token.address = merged[from + i].address
            /\ lastSettled.http => lastSettled.response.status = 200

\* the call was made with limit 0: as an argument, or as ?limit=0
LimitIsZero(call) ==
    IF call.http THEN call.query.limit = Query(<<"0">>) ELSE call.limit = 0

\* C29: a snapshot returned for limit 0 has no entries.
C29_LimitZeroIsEmpty ==
    (lastSettled.pc = "resolved" /\ LimitIsZero(lastSettled)) =>
        lastSettled.entries = <<>>

\* C30: the route passes offset 0 when the request has no offset and
\* limit 25 when it has no limit, and no response has more than 100
\* entries.
C30_DefaultsAndCap ==
    lastSettled.http =>
        /\ ~lastSettled.query.offset.present => lastSettled.offset = 0
        /\ ~lastSettled.query.limit.present => lastSettled.limit = 25
        /\ Len(lastSettled.entries) <= 100

\* volumeUSD is 15% of liquidityUSD and marketCapUSD is 10000000 times
\* priceUSD
DerivedFromPriceAndLiquidity(entry) ==
    /\ entry.volumeUSD * 100 = entry.liquidityUSD * 15
    /\ entry.marketCapUSD = entry.priceUSD * 10000000

\* C31: when getTopPools resolves with no pool of a token, the entry
\* computed, cached and returned for the token has priceUSD 1,
\* liquidityUSD 500000, volumeUSD 75000 and marketCapUSD 10000000; and
\* every entry that is cached or returned has volumeUSD = 0.15 x
\* liquidityUSD and marketCapUSD = 10000000 x priceUSD.
C31_FallbackAndDerivedFields ==
    [][\A c \in Clients :
          /\ \A i \in snapshotCalls[c].pending : \A pools \in TopPoolLists :
                (/\ TopPoolsResolved(c, i, pools)
                 /\ FindTokenPool(pools, snapshotCalls[c].windowedMetadata[i]) = 0) =>
                    LET call == snapshotCalls[c]
                        meta == call.windowedMetadata[i]
                        entry == snapshotCache'[cacheKey(call.chainKey, meta)].entry
                    IN  /\ entry.token.address = meta.address
                        /\ entry.priceUSD = 1
                        /\ entry.liquidityUSD = 500000
                        /\ entry.volumeUSD = 75000
                        /\ entry.marketCapUSD = 10000000
                        /\ call.pc = "pending" => Started(c).entries[i] = entry
          /\ \A key \in DOMAIN snapshotCache' :
                DerivedFromPriceAndLiquidity(snapshotCache'[key].entry)
          /\ \A i \in 1..Len(Started(c).entries) :
                Started(c).entries[i] # NoEntry =>
                    DerivedFromPriceAndLiquidity(Started(c).entries[i])]_vars

C31_Witness ==
    /\ lastSettled.pc = "resolved"
    /\ \E i \in 1..Len(lastSettled.entries) :
          /\ lastSettled.entries[i].priceUSD = 1
          /\ lastSettled.entries[i].liquidityUSD = 500000
          /\ lastSettled.entries[i].volumeUSD = 75000
    /\ \E key \in DOMAIN snapshotCache :
          /\ snapshotCache[key].entry.liquidityUSD # 500000
          /\ snapshotCache[key].entry.volumeUSD > 0

\* C33: a tick ends only when executeForChain has run for every chain of
\* its due pools: when executionLoop settles, resolved or rejected, no
\* chain partition is left after the one it was processing.
C33_ChainFailureIsolated ==
    [][\A i \in 1..Len(ticks) :
          (LoopRejected(i) \/ (ChainDone(i) /\ Len(ticks') < Len(ticks))) =>
              Len(ticks[i].chains) <= 1]_vars

\* C34: isActive() is true exactly when one interval timer is installed,
\* and it is the timer the scheduler holds; no two timers are ever
\* installed; stop() on a stopped scheduler changes nothing; and while
\* the scheduler is stopped no tick begins.
C34_ActiveIffOneTimer ==
    /\ [](/\ isActive(Scheduler) <=> Cardinality(timers) = 1
          /\ Cardinality(timers) <= 1
          /\ \A tm \in timers : tm.id = executionLoopIntervalId
          /\ ~isActive(Scheduler) => executionLoopIntervalId = NullId)
    /\ [][(~isRunning /\ Stop) =>
             UNCHANGED <<now, isRunning, executionLoopIntervalId, timers, alive,
                         ticks, sharedStateCache, unhandled>>]_vars
    /\ [][~isRunning => Len(ticks') <= Len(ticks)]_vars

C34_Witness ==
    /\ ~isRunning
    /\ lastLog = "stopped"
    /\ timers = {}
    /\ now >= 2 * TimerPeriodMs
    /\ Len(ticks) > 0

\* C35: the timestamp cached under a key never decreases, whatever the
\* order in which the getTopPools calls of concurrent generateSnapshot
\* calls resolve.
C35_CacheTimestampMonotonic ==
    [][\A key \in DOMAIN snapshotCache :
          snapshotCache'[key].timestamp >= snapshotCache[key].timestamp]_vars

\* the return data of the sub-call made to a pool for a function: the
\* entry at the place of that call in the list passed to aggregate
OwnReturnData(read, address, fn) ==
    read.returnData[CHOOSE k \in 1..Len(read.calls) :
                       read.calls[k] = [target |-> address, fn |-> fn]]

\* both sub-calls of the pool returned data that decodes
SubCallsSucceeded(read, address) ==
    /\ Decodable("slot0", OwnReturnData(read, address, "slot0"))
    /\ Decodable("liquidity", OwnReturnData(read, address, "liquidity"))

====
